---- MODULE Spec2Model ----
(***************************************************************************)
(* Verification model of the smart-home-sensors dashboards:                *)
(*   - the grow-box panel's adaptive polling scheduler,                    *)
(*   - the grow-box automation router (hysteresis loop and LED scheduler), *)
(*   - the Shelly Pro 50EM panel's payload normalisation and merge,        *)
(*   - the Shelly 1PM Mini Gen3 panel's command/refresh protocol,          *)
(*   - the Shelly H&T panel's polling loop and views,                      *)
(*   - the 50EM revision with the command button (sendRPCCommand),         *)
(*   - the grow-box panel's actuator buttons,                              *)
(*   - the Arduino WebSocket panel (bridge start, polling, commands),      *)
(*   - the colour and label functions of the panels.                       *)
(* Each component has its own specification; the variables of the other    *)
(* components stay at their initial value under it.                        *)
(***************************************************************************)
EXTENDS Integers, Sequences, FiniteSets, TLC

(***************************************************************************)
(* Bounds of the model (not program constants).                            *)
(***************************************************************************)
MaxRenames == 2      \* sensorName changes of one mounted grow-box panel
MaxInFlight == 2     \* cap on concurrently outstanding polls of one effect run
MaxManual == 1       \* cap on outstanding "Riprova" fetches per sensor name
MaxTicks == 3        \* clock advances (new sensor readings) of one automation run
MaxFail == 1         \* actuator commands that may fail within one automation pass
MaxToggles == 1      \* successful operator commands to the LED endpoint in one run
MaxPolls == 2        \* poll responses of one 50EM panel run
MaxStatusPolls == 1  \* cap on outstanding interval status fetches of the 1PM panel
MaxClicks == 2       \* button presses on one 1PM panel
MaxPmRenames == 1    \* sensorName changes of one 1PM panel
MaxReads == 2        \* fetchCultivationStatus calls in flight
MaxHours == 2        \* clock advances between lifecycle calls
MaxWeeks == 7        \* age in weeks of the oldest vegetativa cycle

VARIABLES
  \* ---- grow-box panel (ArduinoGrowBoxControl.tsx) ----
  gMounted,     \* the panel is mounted
  gSensor,      \* index of the current sensorName = id of the current run of the polling effect
  gTimer,       \* timeoutRef: the armed one-shot timer, or NoTimer
  gSched,       \* per effect run: scheduler-issued fetchAllData calls in flight
  gManual,      \* per sensor name: "Riprova" fetchAllData calls in flight
  gData,        \* data (displayed sensor data)
  gLastData,    \* lastDataRef.current
  gFresh,       \* Date.now() - lastUpdateRef.current < 10000
  gLoading,     \* loading
  gError,       \* error
  gShown,       \* cultivationActive, fase, the five actuator states, targets, currentValues
  gStatus,      \* fetchCultivationStatus calls in flight
  gFaseReads,   \* fetchFase calls in flight
  gLast,        \* history: the status response applied last (resp); its request
                \* overlapped that of the response applied before it (pair); every
                \* status request in flight was in flight when it was applied (old)
  gSeenAny,     \* history: a displayed value was seen to change less than 10 s ago
  gArm          \* history: the last arming of the timer, the outcome of the poll
                \* that armed it (ok), the sensor data of its response (data),
                \* the outcome of the poll before that one (after)

growVars == <<gMounted, gSensor, gTimer, gSched, gManual, gData, gLastData, gFresh, gLoading,
              gError, gShown, gStatus, gFaseReads, gLast, gSeenAny, gArm>>

VARIABLES
  \* ---- grow-box automation router (backend) ----
  now,          \* wall clock, in seconds
  ticks,        \* clock advances so far
  reading,      \* a new sensor reading is waiting for its automation pass
  growth_phase, \* growth_phase of the configuration document
  start_date,   \* vegetative_start_date (cultivation_start_date when absent)
  act,          \* actuator_<name>_state of the configuration document
  led,          \* LedScheduleState: is_on, last_toggle, daily_on_seconds, last_reset
  led_lit,      \* history: the LED is physically on (last successful LED command)
  real_on,      \* history: seconds the LED was really on since the last daily reset
  manual,       \* history: successful operator commands to the LED endpoint
  led_failed,   \* history: an LED command failed
  last          \* history: the last backend operation and what it did

autoVars == <<now, ticks, reading, growth_phase, start_date, act, led, led_lit, real_on, manual, led_failed, last>>

VARIABLES
  \* ---- Shelly Pro 50EM panel, merging revision ----
  emMounted,    \* isMounted of the polling effect
  emStatus,     \* status (the displayed data)
  emError,      \* error
  emLoading,    \* loading
  emPolls,      \* poll responses so far
  emPrev,       \* history: status before the last poll response
  emLast        \* history: the last poll response, what was extracted from it, and
                \* the kind of the poll response before it (after)

emVars == <<emMounted, emStatus, emError, emLoading, emPolls, emPrev, emLast>>

VARIABLES
  \* ---- Shelly 1PM Mini Gen3 panel ----
  pmMounted,    \* the panel is mounted (its interval is running)
  pmLoading,    \* loading: the per-action flags
  pmCall,       \* per button action: its calls awaiting the response / the refresh
  pmPolls,      \* status fetches issued at mount or by the interval, in flight
  pmError,      \* error
  pmAutoOff,    \* autoOff
  pmAutoOn,     \* autoOn
  pmClicks,     \* number of button presses so far
  pmLastClick,  \* history: the button pressed last
  pmRenames,    \* number of sensorName changes so far
  pmDone        \* history: the button call that completed last, and how; the timers
                \* of the last successful status response not followed by an edit

pmVars == <<pmMounted, pmLoading, pmCall, pmPolls, pmError, pmAutoOff, pmAutoOn, pmClicks,
           pmLastClick, pmRenames, pmDone>>

VARIABLES
  \* ---- grow-box automation router: cultivation lifecycle ----
  doc,          \* the sensor's configuration document; an unset field is not in its domain
  cache,        \* the in-process LED cache entry of the sensor: {} or {state}
  lcNow,        \* wall clock, in seconds
  lcLast        \* history: the last lifecycle call, the call before it, what it returned

lcVars == <<doc, cache, lcNow, lcLast>>

VARIABLES
  \* ---- Shelly H&T panel (ShellyHT.tsx) ----
  htMounted,    \* the panel is mounted
  htInterval,   \* the 60 s interval of the polling effect is set
  htData,       \* data: the displayed reading, 0 for the empty object {}
  htLoading,    \* loading
  htError,      \* error
  htFetch,      \* fetchData calls in flight
  htLast        \* history: the fetchData call that settled last, the one before it,
                \* the readings received so far

htVars == <<htMounted, htInterval, htData, htLoading, htError, htFetch, htLast>>

VARIABLES
  \* ---- Shelly Pro 50EM panel, revision with the command button ----
  rpcMounted,   \* the panel is mounted
  rpcInterval,  \* the 5 s interval of the polling effect is set
  rpcLoading,   \* loading.rpc_command
  rpcCalls,     \* callAPI('/rpc') calls in flight
  rpcTimers,    \* pending 1 s timeouts set by sendRPCCommand
  rpcFetch,     \* fetchStatus calls in flight
  rpcClicks,    \* presses of the command button so far
  rpcStatus,    \* status: the displayed data, 0 before any response
  rpcLate       \* history: what happened after the unmount (timer fired, request issued)

rpcVars == <<rpcMounted, rpcInterval, rpcLoading, rpcCalls, rpcTimers, rpcFetch, rpcClicks,
            rpcStatus, rpcLate>>

VARIABLES
  \* ---- grow-box panel: the actuator buttons ----
  tgCall,       \* per actuator: its command awaiting the response ("sent"), the
                \* status re-read awaited after it ("reading"), or "none"
  tgClicks,     \* presses of actuator buttons so far
  tgLast        \* history: the last step of a button handler

tgVars == <<tgCall, tgClicks, tgLast>>

VARIABLES
  \* ---- Arduino WebSocket panel (ArduinoWebSocketControl.tsx) ----
  wsMounted,    \* the panel is mounted
  wsSensor,     \* index of the current sensorName
  wsStarted,    \* serverStarted
  wsPort,       \* port, 0 for null
  wsLoading,    \* loading: the flags start and command
  wsStartFor,   \* the sensor of the start request in flight, or NoSensor
  wsInterval,   \* the sensor the 2 s interval of the polling effect polls, or NoSensor
  wsFetch,      \* data polls in flight
  wsPin,        \* commandPin
  wsStarts,     \* start requests issued so far
  wsEdits,      \* edits of the pin field so far
  wsHist        \* history: sensors whose start succeeded, sensors polled, the last
                \* start, the last pin entered, the last command sent

wsVars == <<wsMounted, wsSensor, wsStarted, wsPort, wsLoading, wsStartFor, wsInterval, wsFetch,
           wsPin, wsStarts, wsEdits, wsHist>>

VARIABLES
  \* ---- display functions of the panels ----
  fnIn,         \* what is rendered: the function and its arguments
  fnOut         \* the colour or label rendered, "none" before the render

pureVars == <<fnIn, fnOut>>

VARIABLES
  \* ---- Shelly Dimmer 2 panel (ShellyDimmer2Control.tsx) ----
  dmBrightness, \* brightness
  dmLoading,    \* loading: the flags of the three buttons that send brightness
  dmClicks,     \* presses of those buttons so far
  dmPreset,     \* history: the preset selected last, 0 once the slider has moved
  dmSent        \* history: the last command sent and the preset selected before it

dmVars == <<dmBrightness, dmLoading, dmClicks, dmPreset, dmSent>>

VARIABLES
  \* ---- grow-box automation router: a pass in flight next to the lifecycle calls ----
  rcPass,       \* the automation pass in flight: its position and the commands left
  rcPasses      \* passes begun so far

rcVars == <<rcPass, rcPasses>>

vars == <<growVars, autoVars, emVars, pmVars, lcVars, htVars, rpcVars, tgVars, wsVars, pureVars, dmVars, rcVars>>

\* what the actions of one component leave alone
notGrow == <<autoVars, emVars, pmVars, lcVars, htVars, rpcVars, tgVars, wsVars, pureVars, dmVars, rcVars>>
notAuto == <<growVars, emVars, pmVars, lcVars, htVars, rpcVars, tgVars, wsVars, pureVars, dmVars, rcVars>>
notEm == <<growVars, autoVars, pmVars, lcVars, htVars, rpcVars, tgVars, wsVars, pureVars, dmVars, rcVars>>
notPm == <<growVars, autoVars, emVars, lcVars, htVars, rpcVars, tgVars, wsVars, pureVars, dmVars, rcVars>>
notLc == <<growVars, autoVars, emVars, pmVars, htVars, rpcVars, tgVars, wsVars, pureVars, dmVars, rcVars>>
notHt == <<growVars, autoVars, emVars, pmVars, lcVars, rpcVars, tgVars, wsVars, pureVars, dmVars, rcVars>>
notRpc == <<growVars, autoVars, emVars, pmVars, lcVars, htVars, tgVars, wsVars, pureVars, dmVars, rcVars>>
notTg == <<growVars, autoVars, emVars, pmVars, lcVars, htVars, rpcVars, wsVars, pureVars, dmVars, rcVars>>
notGrowTg == <<autoVars, emVars, pmVars, lcVars, htVars, rpcVars, wsVars, pureVars, dmVars, rcVars>>
notWs == <<growVars, autoVars, emVars, pmVars, lcVars, htVars, rpcVars, tgVars, pureVars, dmVars, rcVars>>
notPure == <<growVars, autoVars, emVars, pmVars, lcVars, htVars, rpcVars, tgVars, wsVars, dmVars, rcVars>>
notDm == <<growVars, autoVars, emVars, pmVars, lcVars, htVars, rpcVars, tgVars, wsVars, pureVars, rcVars>>
notLcRc == <<growVars, autoVars, emVars, pmVars, htVars, rpcVars, tgVars, wsVars, pureVars, dmVars>>
notRc == <<growVars, autoVars, emVars, pmVars, lcVars, htVars, rpcVars, tgVars, wsVars, pureVars, dmVars>>

(***************************************************************************)
(* Grow-box panel: adaptive polling and the combined status reads.         *)
(***************************************************************************)
Actuators == {"pompa_aspirazione", "pompa_acqua", "resistenza", "luce_led", "ventola"}

Runs == 0..MaxRenames
DataVals == {0, 1, 2}          \* 0 stands for the empty object {}
NoData == 0 - 1                \* sensor_data absent from a response
NoTimer == [owner |-> -1, delay |-> 0]
FastDelay == 1000
SlowDelay == 5000

RECURSIVE SumUpTo(_, _)
SumUpTo(f, n) == IF n < 0 THEN 0 ELSE f[n] + SumUpTo(f, n - 1)

\* scheduler-issued polls in flight, over all runs of the polling effect
SchedInFlight == SumUpTo(gSched, MaxRenames)

\* requests of the combined status in flight: polls, retries, status reads,
\* re-reads awaited by an actuator button
StatusInFlight ==
  SchedInFlight + SumUpTo(gManual, MaxRenames) + gStatus
    + Cardinality({a \in Actuators : tgCall[a].phase = "reading"})

\* a response of GET stato-coltivazione; "none", 0 and present = FALSE stand
\* for an absent growth_phase, targets / current_values and actuator_states
StatusResponse(d, active, phase, on, tg, avg) ==
  [sensor_data |-> d, cultivation_active |-> active, growth_phase |-> phase,
   actuator_states |-> on, targets |-> tg, current_values |-> avg]
StatesOn(S) == [present |-> TRUE, on |-> S]
NoStates == [present |-> FALSE]
RespIdle(d) == StatusResponse(d, FALSE, "none", StatesOn({}), 0, 1)
RespBare(d) == StatusResponse(d, FALSE, "none", NoStates, 0, 0)
RespFlower(d) == StatusResponse(d, TRUE, "fioritura", StatesOn({"luce_led"}), 1, 1)
RespSeedling(d) == StatusResponse(d, TRUE, "piantina", StatesOn({"ventola"}), 2, 2)

\* the displayed cultivation status before any response
InitialShown ==
  [active |-> FALSE, fase |-> "none", actuators |-> {}, targets |-> 0, averages |-> 0]

\* the setters both fetchAllData and fetchCultivationStatus run on a response
ShowStatus(shown, r) ==
  [active |-> r.cultivation_active,
   fase |-> IF r.growth_phase # "none" THEN r.growth_phase ELSE shown.fase,
   actuators |-> IF r.actuator_states.present THEN r.actuator_states.on ELSE shown.actuators,
   targets |-> IF r.targets # 0 THEN r.targets ELSE shown.targets,
   averages |-> IF r.current_values # 0 THEN r.current_values ELSE shown.averages]

\* isMounted of the closure of effect run g
IsMountedRun(g) == gMounted /\ g = gSensor

\* a scheduler that always polls fast
PollIntervalAlwaysFast(fresh) == FastDelay

\* interval chosen by scheduleNextFetch
PollInterval(fresh) == IF fresh THEN FastDelay ELSE SlowDelay

\* history: a status request starts
ReadStarts == gLast' = [gLast EXCEPT !.old = FALSE]

\* the effect on [cultivationActive, fetchCultivationStatus]: reads started
\* when cultivationActive has just become true
ActiveReads(shown) == IF shown.active /\ ~gShown.active THEN 1 ELSE 0

\* history: a status response has been applied; left is the number of status
\* requests still in flight, started the number of reads started by the effect
ReadResolved(r, left, started) ==
  gLast' = [resp |-> r, pair |-> gLast.old, old |-> (left > 0 /\ started = 0)]

\* history: a response changes a displayed sensor reading, actuator state,
\* target or average
SeesChange ==
  gSeenAny' = (\/ gSeenAny
               \/ gData' # gData
               \/ gShown'.actuators # gShown.actuators
               \/ gShown'.targets # gShown.targets
               \/ gShown'.averages # gShown.averages)

\* state written by fetchAllData when its request starts
FetchAllDataStart == gLoading' = TRUE

\* state written by fetchAllData when its response arrives (ok) or fails
FetchAllDataEnd(ok, r) ==
  /\ gLoading' = FALSE
  /\ IF ok
       THEN LET d == IF r.sensor_data = NoData THEN 0 ELSE r.sensor_data
            IN  /\ gFresh' = (IF d # gLastData THEN TRUE ELSE gFresh)
                /\ gLastData' = d
                /\ gData' = d
                /\ gShown' = ShowStatus(gShown, r)
                /\ gError' = "none"
       ELSE /\ gError' = "err"
            /\ UNCHANGED <<gFresh, gLastData, gData, gShown>>

\* a fetchAllData call settles: its writes, the reads the effect starts, the history
FetchAllDataSettles(ok, r) ==
  IF gMounted
    THEN /\ FetchAllDataEnd(ok, r)
         /\ gStatus + ActiveReads(gShown') <= MaxReads
         /\ gStatus' = gStatus + ActiveReads(gShown')
         /\ SeesChange
         /\ IF ok
              THEN ReadResolved(r, StatusInFlight - 1, ActiveReads(gShown'))
              ELSE UNCHANGED gLast
    ELSE UNCHANGED <<gLoading, gFresh, gLastData, gData, gShown, gError, gStatus, gLast,
                     gSeenAny>>

GrowInit ==
  /\ gMounted = TRUE
  /\ gSensor = 0
  /\ gTimer = NoTimer
  /\ gSched = [g \in Runs |-> IF g = 0 THEN 1 ELSE 0]
  /\ gManual = [g \in Runs |-> 0]
  /\ gData = 0
  /\ gLastData = 0
  /\ gFresh = TRUE
  /\ gLoading = TRUE
  /\ gError = "none"
  /\ gShown = InitialShown
  /\ gStatus = 1
  /\ gFaseReads = 1
  /\ gLast = [resp |-> RespBare(NoData), pair |-> FALSE, old |-> FALSE]
  /\ gSeenAny = FALSE
  /\ gArm = [armed |-> FALSE, delay |-> 0, any |-> FALSE, fresh |-> FALSE,
             ok |-> FALSE, after |-> "none", data |-> NoData]

\* mutant: the timer stays armed after firing, like a fixed-interval timer
GrowTimerFireInterval ==
  /\ gTimer # NoTimer
  /\ IsMountedRun(gTimer.owner)
  /\ gSched[gTimer.owner] < MaxInFlight
  /\ gSched' = [gSched EXCEPT ![gTimer.owner] = @ + 1]
  /\ FetchAllDataStart
  /\ ReadStarts
  /\ UNCHANGED <<gTimer, gMounted, gSensor, gManual, gData, gLastData, gFresh, gError,
                 gShown, gStatus, gFaseReads, gSeenAny, gArm>>
  /\ UNCHANGED notGrow

\* the one-shot timer fires: its callback issues fetchAllData
GrowTimerFire ==
  /\ gTimer # NoTimer
  /\ IsMountedRun(gTimer.owner)
  /\ gSched[gTimer.owner] < MaxInFlight
  /\ gTimer' = NoTimer
  /\ gSched' = [gSched EXCEPT ![gTimer.owner] = @ + 1]
  /\ FetchAllDataStart
  /\ ReadStarts
  /\ UNCHANGED <<gMounted, gSensor, gManual, gData, gLastData, gFresh, gError,
                 gShown, gStatus, gFaseReads, gSeenAny, gArm>>
  /\ UNCHANGED notGrow

\* a scheduler-issued fetchAllData of effect run g settles; the continuation
\* re-arms the timer through scheduleNextFetch when the run is still mounted
GrowPollSettle(g, ok, r) ==
  /\ gSched[g] > 0
  /\ gSched' = [gSched EXCEPT ![g] = @ - 1]
  /\ FetchAllDataSettles(ok, r)
  /\ gTimer' = IF IsMountedRun(g)
                 THEN [owner |-> g, delay |-> PollInterval(gFresh')]
                 ELSE gTimer
  /\ gArm' = IF IsMountedRun(g)
               THEN [armed |-> TRUE, delay |-> PollInterval(gFresh'),
                     any |-> gSeenAny', fresh |-> gFresh', ok |-> ok,
                     data |-> IF ok THEN r.sensor_data ELSE NoData,
                     after |-> IF ~gArm.armed THEN "none"
                               ELSE IF gArm.ok THEN "ok" ELSE "failed"]
               ELSE gArm
  /\ UNCHANGED <<gMounted, gSensor, gManual, gFaseReads>>
  /\ UNCHANGED notGrow

\* ten seconds pass without a response
GrowAge ==
  /\ gMounted
  /\ gFresh \/ gSeenAny
  /\ gFresh' = FALSE
  /\ gSeenAny' = FALSE
  /\ UNCHANGED <<gMounted, gSensor, gTimer, gSched, gManual, gData, gLastData, gLoading,
                 gError, gShown, gStatus, gFaseReads, gLast, gArm>>
  /\ UNCHANGED notGrow

\* sensorName changes: cleanup of the old effect run, then the new run starts;
\* the effects on fetchFase / fetchCultivationStatus run again as well
GrowRename ==
  /\ gMounted
  /\ gSensor < MaxRenames
  /\ gSensor' = gSensor + 1
  /\ gTimer' = NoTimer
  /\ gSched' = [gSched EXCEPT ![gSensor + 1] = @ + 1]
  /\ FetchAllDataStart
  /\ gFaseReads' = gFaseReads + 1
  /\ gStatus' = gStatus + (IF gShown.active THEN 2 ELSE 1)
  /\ ReadStarts
  /\ UNCHANGED <<gMounted, gManual, gData, gLastData, gFresh, gError, gShown, gSeenAny, gArm>>
  /\ UNCHANGED notGrow

\* "Riprova" button of the error view
GrowRetry ==
  /\ gMounted
  /\ ~(gLoading /\ gData = 0)
  /\ gError # "none"
  /\ gManual[gSensor] < MaxManual
  /\ gManual' = [gManual EXCEPT ![gSensor] = @ + 1]
  /\ FetchAllDataStart
  /\ ReadStarts
  /\ UNCHANGED <<gMounted, gSensor, gTimer, gSched, gData, gLastData, gFresh, gError,
                 gShown, gStatus, gFaseReads, gSeenAny, gArm>>
  /\ UNCHANGED notGrow

GrowRetrySettle(g, ok, r) ==
  /\ gManual[g] > 0
  /\ gManual' = [gManual EXCEPT ![g] = @ - 1]
  /\ FetchAllDataSettles(ok, r)
  /\ UNCHANGED <<gMounted, gSensor, gTimer, gSched, gFaseReads, gArm>>
  /\ UNCHANGED notGrow

\* a fetchCultivationStatus call settles
GrowStatusSettle(ok, r) ==
  /\ gStatus > 0
  /\ IF gMounted /\ ok
       THEN /\ gShown' = ShowStatus(gShown, r)
            /\ gData' = IF r.sensor_data # NoData THEN r.sensor_data ELSE gData
            /\ gStatus' = gStatus - 1 + ActiveReads(gShown')
            /\ ReadResolved(r, StatusInFlight - 1, ActiveReads(gShown'))
            /\ SeesChange
       ELSE /\ gStatus' = gStatus - 1
            /\ UNCHANGED <<gShown, gData, gLast, gSeenAny>>
  /\ UNCHANGED <<gMounted, gSensor, gTimer, gSched, gManual, gLastData, gFresh, gLoading,
                 gError, gFaseReads, gArm>>
  /\ UNCHANGED notGrow

\* a fetchFase call settles: setFase(result.fase || null)
GrowFaseSettle(ok, fase) ==
  /\ gFaseReads > 0
  /\ gFaseReads' = gFaseReads - 1
  /\ IF gMounted /\ ok
       THEN /\ gShown' = [gShown EXCEPT !.fase = fase]
            /\ gLast' = [gLast EXCEPT !.pair = FALSE, !.old = FALSE]
       ELSE UNCHANGED <<gShown, gLast>>
  /\ UNCHANGED <<gMounted, gSensor, gTimer, gSched, gManual, gData, gLastData, gFresh,
                 gLoading, gError, gStatus, gSeenAny, gArm>>
  /\ UNCHANGED notGrow

\* the panel unmounts: cleanup of the polling effect
GrowUnmount ==
  /\ gMounted
  /\ gMounted' = FALSE
  /\ gTimer' = NoTimer
  /\ UNCHANGED <<gSensor, gSched, gManual, gData, gLastData, gFresh, gLoading, gError,
                 gShown, gStatus, gFaseReads, gLast, gSeenAny, gArm>>
  /\ UNCHANGED notGrow

\* responses of a sensor without a cultivation cycle
IdleResponses == {RespIdle(d) : d \in DataVals}

\* the polling effect and the retry button on their own, for a sensor without
\* a cultivation cycle; the reads of the other effects stay outstanding
GrowNext ==
  \/ GrowTimerFire
  \/ \E g \in Runs, ok \in BOOLEAN, r \in IdleResponses : GrowPollSettle(g, ok, r)
  \/ GrowAge
  \/ GrowRename
  \/ GrowRetry
  \/ \E g \in Runs, ok \in BOOLEAN, r \in IdleResponses : GrowRetrySettle(g, ok, r)
  \/ GrowUnmount

\* responses while cultivation cycles start, change phase and end
CycleResponses == {RespFlower(1), RespSeedling(2), RespIdle(1)}

\* the panel with a cultivation cycle going on at the backend
GrowStatusNext ==
  \/ GrowTimerFire
  \/ GrowAge
  \/ \E g \in Runs, ok \in BOOLEAN, r \in CycleResponses : GrowPollSettle(g, ok, r)
  \/ \E ok \in BOOLEAN, r \in CycleResponses : GrowStatusSettle(ok, r)
  \/ \E ok \in BOOLEAN, f \in {"none", "piantina", "fioritura"} : GrowFaseSettle(ok, f)
  \/ GrowUnmount

(***************************************************************************)
(* Grow-box automation router: targets, hysteresis loop, LED scheduler.    *)
(***************************************************************************)
Phases == {"piantina", "vegetativa", "fioritura"}

DaySeconds == 24 * 3600
WeekSeconds == 7 * DaySeconds
MinHoursPerDay == 18
StartOfRun == DaySeconds + 40000    \* clock value at the start of every behaviour

OnTargetSeconds == MinHoursPerDay * 3600
RequiredOffSeconds == (24 - MinHoursPerDay) * 3600

Max(a, b) == IF a >= b THEN a ELSE b
Date(t) == t \div DaySeconds

\* whole 7-day periods between the start date and now
WeeksElapsed(t, start) == (t - start) \div WeekSeconds

\* targets whose humidity band keeps falling with the weeks
TargetsWithoutFloor(phase, weeks, ledOn) ==
  [hum_target_min |-> 65 - weeks * 5, hum_target_max |-> 70 - weeks * 5,
   temp_target_min |-> IF ledOn THEN 22 ELSE 17,
   temp_target_max |-> IF ledOn THEN 28 ELSE 24]

\* environmental targets of a phase
Targets(phase, weeks, ledOn) ==
  CASE phase = "piantina" ->
         [hum_target_min |-> 65, hum_target_max |-> 70,
          temp_target_min |-> IF ledOn THEN 20 ELSE 15,
          temp_target_max |-> IF ledOn THEN 25 ELSE 21]
    [] phase = "vegetativa" ->
         LET hum_min == Max(40, 65 - weeks * 5)
         IN  [hum_target_min |-> hum_min, hum_target_max |-> Max(45, hum_min + 5),
              temp_target_min |-> IF ledOn THEN 22 ELSE 17,
              temp_target_max |-> IF ledOn THEN 28 ELSE 24]
    [] phase = "fioritura" ->
         [hum_target_min |-> 40, hum_target_max |-> 50,
          temp_target_min |-> 20, temp_target_max |-> 26]

Cmd(step, actuator, on) == [step |-> step, actuator |-> actuator, on |-> on]

\* mutant: the in-band branch also switches the fan off
TemperatureCommandsFanOff(tg, avg_temp) ==
  IF avg_temp < tg.temp_target_min
    THEN <<Cmd("temp", "resistenza", TRUE)>>
    ELSE IF avg_temp > tg.temp_target_max
      THEN <<Cmd("temp", "resistenza", FALSE), Cmd("temp", "ventola", TRUE)>>
      ELSE <<Cmd("temp", "resistenza", FALSE), Cmd("temp", "ventola", FALSE)>>

\* temperature step of the hysteresis loop: the commands it issues, in order
TemperatureCommands(tg, avg_temp) ==
  IF avg_temp < tg.temp_target_min
    THEN <<Cmd("temp", "resistenza", TRUE)>>
    ELSE IF avg_temp > tg.temp_target_max
      THEN <<Cmd("temp", "resistenza", FALSE), Cmd("temp", "ventola", TRUE)>>
      ELSE <<Cmd("temp", "resistenza", FALSE)>>

\* mutant: the in-band branch forgets the water pump
HumidityCommandsKeepWater(tg, avg_hum) ==
  IF avg_hum < tg.hum_target_min
    THEN <<Cmd("hum", "pompa_acqua", TRUE), Cmd("hum", "ventola", TRUE),
           Cmd("hum", "pompa_aspirazione", FALSE)>>
    ELSE IF avg_hum > tg.hum_target_max
      THEN <<Cmd("hum", "pompa_aspirazione", TRUE), Cmd("hum", "ventola", TRUE),
             Cmd("hum", "pompa_acqua", FALSE)>>
      ELSE <<Cmd("hum", "pompa_aspirazione", FALSE)>>

\* mutant: the in-band branch also switches the fan off
HumidityCommandsFanOff(tg, avg_hum) ==
  IF avg_hum < tg.hum_target_min
    THEN <<Cmd("hum", "pompa_acqua", TRUE), Cmd("hum", "ventola", TRUE),
           Cmd("hum", "pompa_aspirazione", FALSE)>>
    ELSE IF avg_hum > tg.hum_target_max
      THEN <<Cmd("hum", "pompa_aspirazione", TRUE), Cmd("hum", "ventola", TRUE),
             Cmd("hum", "pompa_acqua", FALSE)>>
      ELSE <<Cmd("hum", "pompa_aspirazione", FALSE), Cmd("hum", "pompa_acqua", FALSE),
             Cmd("hum", "ventola", FALSE)>>

\* humidity step of the hysteresis loop: the commands it issues, in order
HumidityCommands(tg, avg_hum) ==
  IF avg_hum < tg.hum_target_min
    THEN <<Cmd("hum", "pompa_acqua", TRUE), Cmd("hum", "ventola", TRUE),
           Cmd("hum", "pompa_aspirazione", FALSE)>>
    ELSE IF avg_hum > tg.hum_target_max
      THEN <<Cmd("hum", "pompa_aspirazione", TRUE), Cmd("hum", "ventola", TRUE),
             Cmd("hum", "pompa_acqua", FALSE)>>
      ELSE <<Cmd("hum", "pompa_aspirazione", FALSE), Cmd("hum", "pompa_acqua", FALSE)>>

\* LED scheduler, step 2: the daily reset
\* a scheduler that never starts a new day
LedDailyResetNever(l, t) == l

LedDailyReset(l, t) ==
  IF l.last_reset # Date(t)
    THEN [l EXCEPT !.daily_on_seconds = 0, !.last_reset = Date(t), !.last_toggle = t]
    ELSE l

\* mutant: the accumulator is not clamped when the LED is switched off
LedScheduleStepNoClamp(l, t) ==
  LET elapsed == t - l.last_toggle
      on_seconds == l.daily_on_seconds + elapsed
  IN  IF l.is_on
        THEN IF on_seconds >= OnTargetSeconds
               THEN [led |-> [l EXCEPT !.is_on = FALSE, !.last_toggle = t,
                                      !.daily_on_seconds = on_seconds],
                     cmds |-> <<Cmd("led", "luce_led", FALSE)>>]
               ELSE [led |-> [l EXCEPT !.daily_on_seconds = on_seconds],
                     cmds |-> <<>>]
        ELSE IF elapsed >= RequiredOffSeconds /\ l.daily_on_seconds < OnTargetSeconds
               THEN [led |-> [l EXCEPT !.is_on = TRUE, !.last_toggle = t],
                     cmds |-> <<Cmd("led", "luce_led", TRUE)>>]
               ELSE [led |-> l, cmds |-> <<>>]

\* mutant: the LED is switched on after the off-window whatever the quota
LedScheduleStepNoQuota(l, t) ==
  LET elapsed == t - l.last_toggle
      on_seconds == l.daily_on_seconds + elapsed
  IN  IF l.is_on
        THEN IF on_seconds >= OnTargetSeconds
               THEN [led |-> [l EXCEPT !.is_on = FALSE, !.last_toggle = t,
                                      !.daily_on_seconds = OnTargetSeconds],
                     cmds |-> <<Cmd("led", "luce_led", FALSE)>>]
               ELSE [led |-> [l EXCEPT !.daily_on_seconds = on_seconds],
                     cmds |-> <<>>]
        ELSE IF elapsed >= RequiredOffSeconds
               THEN [led |-> [l EXCEPT !.is_on = TRUE, !.last_toggle = t],
                     cmds |-> <<Cmd("led", "luce_led", TRUE)>>]
               ELSE [led |-> l, cmds |-> <<>>]

\* LED scheduler, steps 3-5, on the state l left by the daily reset:
\* the new state and the commands issued
LedScheduleStep(l, t) ==
  LET elapsed == t - l.last_toggle
      on_seconds == l.daily_on_seconds + elapsed
  IN  IF l.is_on
        THEN IF on_seconds >= OnTargetSeconds
               THEN [led |-> [l EXCEPT !.is_on = FALSE, !.last_toggle = t,
                                      !.daily_on_seconds = OnTargetSeconds],
                     cmds |-> <<Cmd("led", "luce_led", FALSE)>>]
               ELSE [led |-> [l EXCEPT !.daily_on_seconds = on_seconds],
                     cmds |-> <<>>]
        ELSE IF elapsed >= RequiredOffSeconds /\ l.daily_on_seconds < OnTargetSeconds
               THEN [led |-> [l EXCEPT !.is_on = TRUE, !.last_toggle = t],
                     cmds |-> <<Cmd("led", "luce_led", TRUE)>>]
               ELSE [led |-> l, cmds |-> <<>>]

\* the "safe" command wrapper applied to a sequence of commands: the command
\* of step s to actuator a fails when <<s, a>> is in fails; a command that
\* succeeds persists its boolean
Failed(c, fails) == <<c.step, c.actuator>> \in fails

\* a wrapper that gives up at the first failed command
RECURSIVE SafeApplyAborting(_, _, _, _)
SafeApplyAborting(a, cmds, fails, i) ==
  IF i > Len(cmds) \/ Failed(cmds[i], fails) THEN a
  ELSE SafeApplyAborting([a EXCEPT ![cmds[i].actuator] = cmds[i].on], cmds, fails, i + 1)

RECURSIVE SafeApply(_, _, _, _)
SafeApply(a, cmds, fails, i) ==
  IF i > Len(cmds) THEN a
  ELSE SafeApply(IF Failed(cmds[i], fails) THEN a
                   ELSE [a EXCEPT ![cmds[i].actuator] = cmds[i].on],
                 cmds, fails, i + 1)

\* the commands of a pass with their outcome
Outcomes(cmds, fails) ==
  [i \in 1..Len(cmds) |->
     [step |-> cmds[i].step, actuator |-> cmds[i].actuator, on |-> cmds[i].on,
      ok |-> ~Failed(cmds[i], fails)]]

\* every command a pass can issue, as <<step, actuator>>
CommandKeys ==
  {<<"temp", "resistenza">>, <<"temp", "ventola">>,
   <<"hum", "pompa_acqua">>, <<"hum", "pompa_aspirazione">>, <<"hum", "ventola">>,
   <<"led", "luce_led">>}
FailSets == {f \in SUBSET CommandKeys : Cardinality(f) <= MaxFail}
LedFailSets == {{}, {<<"led", "luce_led">>}}

NoPass == [temp |-> 0, hum |-> 0, targets |-> Targets("piantina", 0, FALSE),
           cmds |-> <<>>, led_in |-> [is_on |-> FALSE, last_toggle |-> 0,
                                      daily_on_seconds |-> 0, last_reset |-> 0],
           led_pre |-> [is_on |-> FALSE, last_toggle |-> 0,
                        daily_on_seconds |-> 0, last_reset |-> 0],
           act_pre |-> [a \in Actuators |-> FALSE],
           act_temp |-> [a \in Actuators |-> FALSE]]

\* one automation pass for a new sensor reading with averages avg_temp, avg_hum
AutomationPass(avg_temp, avg_hum, fails) ==
  /\ reading
  /\ LET tg == Targets(growth_phase, WeeksElapsed(now, start_date), led.is_on)
         tc == TemperatureCommands(tg, avg_temp)
         hc == HumidityCommands(tg, avg_hum)
         l1 == LedDailyReset(led, now)
         ls == LedScheduleStep(l1, now)
         cmds == tc \o hc \o ls.cmds
         out == Outcomes(cmds, fails)
         ledcmd == {i \in 1..Len(cmds) : cmds[i].actuator = "luce_led"}
     IN  /\ act' = SafeApply(act, cmds, fails, 1)
         /\ led' = ls.led
         /\ led_lit' = IF \E i \in ledcmd : out[i].ok
                         THEN cmds[CHOOSE i \in ledcmd : TRUE].on
                         ELSE led_lit
         /\ led_failed' = (led_failed \/ \E i \in ledcmd : ~out[i].ok)
         /\ real_on' = IF l1 # led THEN 0 ELSE real_on
         /\ last' = [op |-> "pass",
                     pass |-> [temp |-> avg_temp, hum |-> avg_hum, targets |-> tg,
                               cmds |-> out, led_in |-> led, led_pre |-> l1,
                               act_pre |-> act,
                               act_temp |-> SafeApply(act, tc, fails, 1)]]
  /\ reading' = FALSE
  /\ UNCHANGED <<now, ticks, growth_phase, start_date, manual>>
  /\ UNCHANGED notAuto

\* direct LED endpoint (luce-led?action=on|off); ok is the collaborator's verdict
LedEndpoint(on, ok) ==
  /\ manual < MaxToggles
  /\ IF ok
       THEN /\ act' = [act EXCEPT !["luce_led"] = on]
            /\ led' = [led EXCEPT
                         !.daily_on_seconds =
                            IF led.is_on /\ ~on THEN @ + (now - led.last_toggle) ELSE @,
                         !.is_on = on,
                         !.last_toggle = now]
            /\ led_lit' = on
            /\ manual' = manual + 1
       ELSE UNCHANGED <<act, led, led_lit, manual>>
  /\ last' = [op |-> IF ok THEN "led_endpoint" ELSE "led_endpoint_failed", pass |-> NoPass,
              actuator |-> "luce_led", on |-> on]
  /\ UNCHANGED <<now, ticks, reading, growth_phase, start_date, real_on, led_failed>>
  /\ UNCHANGED notAuto

\* a direct endpoint that persists the requested value whatever the collaborator says
ActuatorEndpointAlwaysPersists(a, on, ok) ==
  /\ a # "luce_led"
  /\ manual < MaxToggles
  /\ act' = [act EXCEPT ![a] = on]
  /\ manual' = manual + 1
  /\ last' = [op |-> IF ok THEN "endpoint" ELSE "endpoint_failed", pass |-> NoPass,
              actuator |-> a, on |-> on]
  /\ UNCHANGED <<now, ticks, reading, growth_phase, start_date, led, led_lit, real_on,
                 led_failed>>
  /\ UNCHANGED notAuto

\* direct endpoint of the suction pump, water pump, heater or fan
\* (action=on|off); ok is the collaborator's verdict, a failure is returned as
\* a fatal error
ActuatorEndpoint(a, on, ok) ==
  /\ a # "luce_led"
  /\ manual < MaxToggles
  /\ IF ok
       THEN /\ act' = [act EXCEPT ![a] = on]
            /\ manual' = manual + 1
       ELSE UNCHANGED <<act, manual>>
  /\ last' = [op |-> IF ok THEN "endpoint" ELSE "endpoint_failed", pass |-> NoPass,
              actuator |-> a, on |-> on]
  /\ UNCHANGED <<now, ticks, reading, growth_phase, start_date, led, led_lit, real_on,
                 led_failed>>
  /\ UNCHANGED notAuto

\* start cultivation, as the control loop sees it: phase piantina, the cycle
\* starts now, the LED cache entry is the all-zero state anchored at now
StartCultivationLed ==
  /\ growth_phase' = "piantina"
  /\ start_date' = now
  /\ led' = [is_on |-> FALSE, last_toggle |-> now, daily_on_seconds |-> 0,
             last_reset |-> Date(now)]
  /\ last' = [op |-> "start", pass |-> NoPass]
  /\ UNCHANGED <<now, ticks, reading, act, led_lit, real_on, manual, led_failed>>
  /\ UNCHANGED notAuto

\* the clock advances by d seconds and a new sensor reading arrives
Tick(d) ==
  /\ d = 0 \/ ticks < MaxTicks
  /\ ticks' = IF d = 0 THEN ticks ELSE ticks + 1
  /\ now' = now + d
  /\ reading' = TRUE
  /\ real_on' = real_on + (IF led_lit THEN d ELSE 0)
  /\ last' = [op |-> "tick", pass |-> NoPass]
  /\ UNCHANGED <<growth_phase, start_date, act, led, led_lit, manual, led_failed>>
  /\ UNCHANGED notAuto

LedState(on, ago, daily, reset_ago) ==
  [is_on |-> on, last_toggle |-> StartOfRun - ago, daily_on_seconds |-> daily,
   last_reset |-> Date(StartOfRun) - reset_ago]

\* LED schedule states hydrated from storage at the start of a run
InitLedStates ==
  {LedState(FALSE, 0, 0, r) : r \in {0, 1}}
    \cup {LedState(TRUE, 90, d, r) : d \in {0, 64700, 64710, 64750}, r \in {0, 1}}
    \cup {LedState(FALSE, e, d, 0) : e \in {21000, 21700}, d \in {30000, 64800}}

AutoInitWith(leds, cycles) ==
  /\ now = StartOfRun
  /\ ticks = 0
  /\ reading = TRUE
  /\ \E c \in cycles : growth_phase = c[1] /\ start_date = c[2]
  /\ led \in leds
  /\ act = [a \in Actuators |-> IF a = "luce_led" THEN led.is_on ELSE FALSE]
  /\ led_lit = led.is_on
  /\ real_on = led.daily_on_seconds + (IF led.is_on THEN now - led.last_toggle ELSE 0)
  /\ manual = 0
  /\ led_failed = FALSE
  /\ last = [op |-> "init", pass |-> NoPass]

AutoIdle == AutoInitWith({LedState(FALSE, 0, 0, 0)}, {<<"piantina", StartOfRun>>})


(***************************************************************************)
(* Grow-box automation router: the cultivation lifecycle endpoints.        *)
(***************************************************************************)
StartDates == {"cultivation_start_date", "vegetative_start_date", "flowering_start_date"}
\* the field of an actuator, actuator_<name>_state, is named by the actuator
ActuatorFields == Actuators
LedFields == {"led_is_on", "led_last_toggle", "led_daily_on_seconds", "led_last_reset"}
CycleFields ==
  {"growth_phase", "cultivation_active"} \cup StartDates \cup ActuatorFields \cup LedFields

\* writing and unsetting fields of a document
SetField(d, f, v) == [g \in DOMAIN d \cup {f} |-> IF g = f THEN v ELSE d[g]]
Unset(d, F) == [g \in DOMAIN d \ F |-> d[g]]
IsSet(d, f) == f \in DOMAIN d
EmptyDoc == [g \in {} |-> 0]

\* the all-zero LED state anchored at t
ZeroLed(t) == [is_on |-> FALSE, last_toggle |-> t, daily_on_seconds |-> 0,
               last_reset |-> Date(t)]

\* start cultivation
StartDoc(d, t) ==
  Unset(SetField(SetField(SetField(d, "growth_phase", "piantina"), "cultivation_start_date", t),
            "cultivation_active", TRUE),
        {"vegetative_start_date", "flowering_start_date"})

\* set phase, keeping the start date of the phase that is left
PhaseDocKeepsOther(d, p, t) ==
  LET d1 == SetField(d, "growth_phase", p)
  IN  IF p = "fioritura" THEN SetField(d1, "flowering_start_date", t)
      ELSE IF p = "vegetativa" THEN SetField(d1, "vegetative_start_date", t)
      ELSE d1

\* set phase
PhaseDoc(d, p, t) ==
  LET d1 == SetField(d, "growth_phase", p)
  IN  IF p = "fioritura"
        THEN Unset(SetField(d1, "flowering_start_date", t), {"vegetative_start_date"})
      ELSE IF p = "vegetativa"
        THEN Unset(SetField(d1, "vegetative_start_date", t), {"flowering_start_date"})
      ELSE d1

\* the order in which end cultivation addresses the actuators
ActuatorOrder == <<"pompa_aspirazione", "pompa_acqua", "resistenza", "luce_led", "ventola">>

\* off commands that stop at the first failure
OffCommandsUntilFailure(fails) ==
  LET n == IF \E i \in 1..Len(ActuatorOrder) : ActuatorOrder[i] \in fails
             THEN CHOOSE i \in 1..Len(ActuatorOrder) :
                    /\ ActuatorOrder[i] \in fails
                    /\ \A j \in 1..(i - 1) : ActuatorOrder[j] \notin fails
             ELSE Len(ActuatorOrder)
  IN  [i \in 1..n |-> [actuator |-> ActuatorOrder[i], on |-> FALSE,
                       ok |-> ActuatorOrder[i] \notin fails]]

\* the best-effort off commands of end cultivation; the command to an actuator
\* in fails fails
OffCommands(fails) ==
  [i \in 1..Len(ActuatorOrder) |-> [actuator |-> ActuatorOrder[i], on |-> FALSE,
                                    ok |-> ActuatorOrder[i] \notin fails]]

LcCall(op, phase, cmds) ==
  [op |-> op, prev |-> lcLast.op, phase |-> phase, ok |-> TRUE, cmds |-> cmds]

StartCultivation ==
  /\ doc' = StartDoc(doc, lcNow)
  /\ cache' = {ZeroLed(lcNow)}
  /\ lcLast' = LcCall("start", "piantina", <<>>)
  /\ UNCHANGED lcNow
  /\ UNCHANGED notLc

SetPhase(p) ==
  /\ doc' = PhaseDoc(doc, p, lcNow)
  /\ lcLast' = LcCall("set_phase", p, <<>>)
  /\ UNCHANGED <<cache, lcNow>>
  /\ UNCHANGED notLc

EndCultivation(fails) ==
  /\ doc' = Unset(doc, CycleFields)
  /\ cache' = {}
  /\ lcLast' = LcCall("end", "none", OffCommands(fails))
  /\ UNCHANGED lcNow
  /\ UNCHANGED notLc

\* an hour passes
LcHour ==
  /\ lcNow < StartOfRun + MaxHours * 3600
  /\ lcNow' = lcNow + 3600
  /\ UNCHANGED <<doc, cache, lcLast>>
  /\ UNCHANGED notLc

\* a document of a cycle in phase p, with persisted actuator and LED state
CycleDoc(p, on) ==
  [g \in CycleFields \ (IF p = "fioritura" THEN {"vegetative_start_date"}
                        ELSE IF p = "vegetativa" THEN {"flowering_start_date"}
                        ELSE {"vegetative_start_date", "flowering_start_date"}) |->
     IF g = "growth_phase" THEN p
     ELSE IF g = "cultivation_active" THEN TRUE
     ELSE IF g \in StartDates THEN StartOfRun - DaySeconds
     ELSE IF g \in ActuatorFields THEN g \in on
     ELSE IF g = "led_is_on" THEN "luce_led" \in on
     ELSE IF g = "led_last_toggle" THEN StartOfRun - 90
     ELSE IF g = "led_daily_on_seconds" THEN 3600
     ELSE Date(StartOfRun)]

\* documents the router finds in storage
InitDocs ==
  {EmptyDoc, CycleDoc("piantina", {}), CycleDoc("fioritura", {"luce_led", "ventola"})}

LcInitWith(docs) ==
  /\ doc \in docs
  /\ cache \in {{}, {ZeroLed(StartOfRun - DaySeconds)}}
  /\ lcNow = StartOfRun
  /\ lcLast = [op |-> "none", prev |-> "none", phase |-> "none", ok |-> TRUE, cmds |-> <<>>]

LcIdle ==
  /\ doc = EmptyDoc
  /\ cache = {}
  /\ lcNow = StartOfRun
  /\ lcLast = [op |-> "none", prev |-> "none", phase |-> "none", ok |-> TRUE, cmds |-> <<>>]

LifecycleFailSets == SUBSET Actuators

LifecycleNext ==
  \/ StartCultivation
  \/ \E p \in Phases : SetPhase(p)
  \/ \E fails \in LifecycleFailSets : EndCultivation(fails)
  \/ LcHour

(***************************************************************************)
(* Shelly Pro 50EM panel (merging revision): payload normalisation and     *)
(* merge into the displayed status.                                        *)
(*                                                                         *)
(* JSON values: an object is a record (function from keys to values), an   *)
(* array a sequence; Undefined stands for an absent object, UndefNum for   *)
(* an absent number and UndefStr for an absent string.  A component name   *)
(* "em1data:0" is kept as its two parts <<"em1data", "0">>.                *)
(***************************************************************************)
Undefined == [undef |-> TRUE]
UndefNum == 0 - 1
UndefStr == "undefined"
EmptyObj == [k \in {} |-> 0]

GetObj(o, k) == IF k \in DOMAIN o THEN o[k] ELSE Undefined
GetNum(o, k) == IF k \in DOMAIN o THEN o[k] ELSE UndefNum
GetStr(o, k) == IF k \in DOMAIN o THEN o[k] ELSE UndefStr
Truthy(o) == o # Undefined                      \* every object is truthy
TruthyNum(n) == n # UndefNum /\ n # 0
OrZero(n) == IF TruthyNum(n) THEN n ELSE 0      \* n || 0
OrNum(n, d) == IF TruthyNum(n) THEN n ELSE d    \* n || d
OrObj(a, b) == IF Truthy(a) THEN a ELSE b       \* a || b
At(values, i) == IF i + 1 <= Len(values) THEN values[i + 1] ELSE UndefNum  \* values[i]
Put(m, k, v) == [x \in DOMAIN m \cup {k} |-> IF x = k THEN v ELSE m[x]]

ParseInt(s) == CASE s = "0" -> 0 [] s = "1" -> 1 [] OTHER -> UndefNum

Sections == {"wifi", "sys", "device", "mqtt"}

\* field-for-field copy of an em1 object into a channel record
ChannelOf(em1, id) ==
  [id |-> id,
   act_power |-> OrZero(GetNum(em1, "act_power")),
   aprt_power |-> OrZero(GetNum(em1, "aprt_power")),
   voltage |-> OrZero(GetNum(em1, "voltage")),
   current |-> OrZero(GetNum(em1, "current")),
   pf |-> OrZero(GetNum(em1, "pf")),
   freq |-> OrZero(GetNum(em1, "freq")),
   calibration |-> GetStr(em1, "calibration")]

\* field-for-field copy of an em1data object into an energy record
EnergyOf(em1data, id) ==
  [id |-> id,
   total_act_energy |-> OrZero(GetNum(em1data, "total_act_energy")),
   total_act_ret_energy |-> OrZero(GetNum(em1data, "total_act_ret_energy"))]

\* the channel record an em1data event creates when the channel has none yet
BlankChannel(id) ==
  [id |-> id, act_power |-> 0, aprt_power |-> 0, voltage |-> 0, current |-> 0,
   pf |-> 0, freq |-> 0]

SetIfDefined(rec, field, v) == IF v # UndefNum THEN [rec EXCEPT ![field] = v] ELSE rec

\* mutant: the voltage is read from index 8 instead of index 7
Em1DataEventWrongIndex(x, event) ==
  LET channelId == event.component[2]
      values == event.data.values[1]
      id == OrNum(GetNum(event, "id"), ParseInt(channelId))
      ch0 == IF channelId \in DOMAIN x.channels THEN x.channels[channelId]
             ELSE BlankChannel(id)
      ch1 == SetIfDefined(ch0, "act_power", At(values, 4))
      ch2 == SetIfDefined(ch1, "aprt_power", At(values, 6))
      ch3 == SetIfDefined(ch2, "voltage", At(values, 8))
      ch4 == SetIfDefined(ch3, "current", At(values, 11))
  IN  [channels |-> Put(x.channels, channelId, ch4),
       energy_data |->
         Put(x.energy_data, channelId,
             [id |-> id,
              total_act_energy |->
                IF TruthyNum(At(values, 0)) THEN At(values, 0) * 1000 ELSE 0,
              total_act_ret_energy |->
                IF TruthyNum(At(values, 1)) THEN At(values, 1) * 1000 ELSE 0])]

\* one em1data event with a non-empty values array, applied to the channels
\* and energy_data extracted so far
Em1DataEvent(x, event) ==
  LET channelId == event.component[2]
      values == event.data.values[1]
      id == OrNum(GetNum(event, "id"), ParseInt(channelId))
      ch0 == IF channelId \in DOMAIN x.channels THEN x.channels[channelId]
             ELSE BlankChannel(id)
      ch1 == SetIfDefined(ch0, "act_power", At(values, 4))
      ch2 == SetIfDefined(ch1, "aprt_power", At(values, 6))
      ch3 == SetIfDefined(ch2, "voltage", At(values, 7))
      ch4 == SetIfDefined(ch3, "current", At(values, 11))
  IN  [channels |-> Put(x.channels, channelId, ch4),
       energy_data |->
         Put(x.energy_data, channelId,
             [id |-> id,
              total_act_energy |->
                IF TruthyNum(At(values, 0)) THEN At(values, 0) * 1000 ELSE 0,
              total_act_ret_energy |->
                IF TruthyNum(At(values, 1)) THEN At(values, 1) * 1000 ELSE 0])]

\* one event of a NotifyEvent envelope
ApplyEvent(x, event) ==
  IF ~("component" \in DOMAIN event /\ "data" \in DOMAIN event) THEN x
  ELSE IF event.component[1] = "em1data"
    THEN IF "values" \in DOMAIN event.data /\ Len(event.data.values) > 0
           THEN Em1DataEvent(x, event)
           ELSE x
    ELSE IF event.component[1] = "em1"
      THEN [x EXCEPT !.channels =
              Put(x.channels, event.component[2],
                  ChannelOf(event.data,
                            OrNum(GetNum(event, "id"), ParseInt(event.component[2]))))]
      ELSE x

RECURSIVE ApplyEvents(_, _, _)
ApplyEvents(x, events, i) ==
  IF i > Len(events) THEN x ELSE ApplyEvents(ApplyEvent(x, events[i]), events, i + 1)

\* sections and ts copied through from params when present
CopySections(params) ==
  [wifi |-> GetObj(params, "wifi"), sys |-> GetObj(params, "sys"),
   device |-> GetObj(params, "device"), mqtt |-> GetObj(params, "mqtt"),
   ts |-> IF TruthyNum(GetNum(params, "ts")) THEN params.ts ELSE UndefNum]

\* an extracted map that was never created stays undefined
MapOrUndefined(m) == IF DOMAIN m = {} THEN Undefined ELSE m

\* channels and energy_data read from the keys em1:0, em1:1, em1data:0, em1data:1
NamedKeys(o) ==
  [channels |->
     [c \in {k \in {"0", "1"} : Truthy(GetObj(o, IF k = "0" THEN "em1:0" ELSE "em1:1"))} |->
        LET em1 == o[IF c = "0" THEN "em1:0" ELSE "em1:1"]
        IN  ChannelOf(em1, OrNum(GetNum(em1, "id"), ParseInt(c)))],
   energy_data |->
     [c \in {k \in {"0", "1"} :
               Truthy(GetObj(o, IF k = "0" THEN "em1data:0" ELSE "em1data:1"))} |->
        LET em1data == o[IF c = "0" THEN "em1data:0" ELSE "em1data:1"]
        IN  EnergyOf(em1data, OrNum(GetNum(em1data, "id"), ParseInt(c)))]]

Extracted(channels, energy_data, s) ==
  [channels |-> channels, energy_data |-> energy_data, wifi |-> s.wifi, sys |-> s.sys,
   device |-> s.device, mqtt |-> s.mqtt, ts |-> s.ts]

\* the shape tests of extractShellyData
IsNormalized(data) == Truthy(GetObj(data, "channels")) /\ Truthy(GetObj(data, "energy_data"))
IsEnvelope(data) == GetStr(data, "method") # UndefStr /\ Truthy(GetObj(data, "params"))
IsEventEnvelope(data) == data.method = "NotifyEvent" /\ "events" \in DOMAIN data.params
IsBare(data) == Truthy(GetObj(data, "em1:0")) \/ Truthy(GetObj(data, "em1:1"))

\* the data returned for each shape
FromNormalized(data) ==
  Extracted(data.channels, data.energy_data,
            [CopySections(data) EXCEPT !.ts = GetNum(data, "ts")])
FromEvents(data) ==
  LET x == ApplyEvents([channels |-> EmptyObj, energy_data |-> EmptyObj],
                       data.params.events, 1)
  IN  Extracted(MapOrUndefined(x.channels), MapOrUndefined(x.energy_data),
                CopySections(data.params))
FromParams(data) ==
  LET x == NamedKeys(data.params)
  IN  Extracted(MapOrUndefined(x.channels), MapOrUndefined(x.energy_data),
                CopySections(data.params))
FromBare(data) ==
  LET x == NamedKeys(data)
  IN  Extracted(x.channels, x.energy_data,
                [wifi |-> OrObj(GetObj(data, "wifi"), EmptyObj),
                 sys |-> OrObj(GetObj(data, "sys"), EmptyObj),
                 device |-> OrObj(GetObj(data, "device"), EmptyObj),
                 mqtt |-> OrObj(GetObj(data, "mqtt"), EmptyObj),
                 ts |-> GetNum(data, "ts")])
EmptyExtracted ==
  Extracted(EmptyObj, EmptyObj,
            [wifi |-> EmptyObj, sys |-> EmptyObj, device |-> EmptyObj,
             mqtt |-> EmptyObj, ts |-> UndefNum])

\* an extraction that looks for the bare keys first and for the events last
ExtractShellyDataBareFirst(data) ==
  IF IsBare(data) THEN FromBare(data)
  ELSE IF IsEnvelope(data)
    THEN IF IsEventEnvelope(data) /\ ~IsBare(data.params)
           THEN FromEvents(data) ELSE FromParams(data)
  ELSE IF IsNormalized(data) THEN FromNormalized(data)
  ELSE EmptyExtracted

\* extractShellyData: the canonical (possibly partial) data of a payload
ExtractShellyData(data) ==
  IF IsNormalized(data) THEN FromNormalized(data)
  ELSE IF IsEnvelope(data)
    THEN IF IsEventEnvelope(data) THEN FromEvents(data) ELSE FromParams(data)
  ELSE IF IsBare(data) THEN FromBare(data)
  ELSE EmptyExtracted

\* mutant: the new data replace the displayed status wholesale
MergeStatusReplace(prevStatus, newData) ==
  [channels |-> [c \in {"0", "1"} |-> GetObj(newData.channels, c)],
   energy_data |-> [c \in {"0", "1"} |-> GetObj(newData.energy_data, c)],
   wifi |-> OrObj(newData.wifi, OrObj(prevStatus.wifi, EmptyObj)),
   sys |-> OrObj(newData.sys, OrObj(prevStatus.sys, EmptyObj)),
   device |-> OrObj(newData.device, OrObj(prevStatus.device, EmptyObj)),
   mqtt |-> OrObj(newData.mqtt, OrObj(prevStatus.mqtt, EmptyObj)),
   ts |-> IF newData.ts # UndefNum THEN newData.ts ELSE prevStatus.ts]

\* the setStatus updater of fetchStatus
MergeStatus(prevStatus, newData) ==
  [channels |->
     [c \in {"0", "1"} |-> OrObj(GetObj(newData.channels, c), GetObj(prevStatus.channels, c))],
   energy_data |->
     [c \in {"0", "1"} |->
        OrObj(GetObj(newData.energy_data, c), GetObj(prevStatus.energy_data, c))],
   wifi |-> OrObj(newData.wifi, OrObj(prevStatus.wifi, EmptyObj)),
   sys |-> OrObj(newData.sys, OrObj(prevStatus.sys, EmptyObj)),
   device |-> OrObj(newData.device, OrObj(prevStatus.device, EmptyObj)),
   mqtt |-> OrObj(newData.mqtt, OrObj(prevStatus.mqtt, EmptyObj)),
   ts |-> IF newData.ts # UndefNum THEN newData.ts ELSE prevStatus.ts]


(***************************************************************************)
(* Payloads the status endpoint may return (result.data), each with what   *)
(* it carries: chans = channels it has data for, secs = sections present.  *)
(***************************************************************************)
SectionValue(s) ==
  CASE s = "wifi" -> [ssid |-> "net"]
    [] s = "sys" -> [mac |-> "aa"]
    [] s = "device" -> [name |-> "em"]
    [] s = "mqtt" -> [connected |-> TRUE]

WithSections(o, secs) == o @@ [s \in secs |-> SectionValue(s)]

Em1Full(c) ==
  [id |-> c, act_power |-> 150 + c, aprt_power |-> 300, voltage |-> 230, current |-> 4,
   pf |-> 1, freq |-> 50, calibration |-> "factory"]
Em1Sparse == [act_power |-> 70]
Em1DataFull(c) == [id |-> c, total_act_energy |-> 12345 + c, total_act_ret_energy |-> 1200]

VecA == <<12, 1, 2, 3, 150, 5, 300, 230, 8, 9, 10, 4>>
VecA2 == <<12, 1, 92, 93, 150, 95, 300, 230, 98, 99, 90, 4>>
VecB == <<20, 0, 7, 7, 0, 7, 310, 231, 7, 7, 7, 5>>
VecShort == <<5, 2>>

DataEvent(c, vecs) ==
  [component |-> <<"em1data", c>>, id |-> ParseInt(c), data |-> [values |-> vecs]]
Em1Event(c, em1) == [component |-> <<"em1", c>>, id |-> ParseInt(c), data |-> em1]
OtherEvent == [component |-> <<"sys", "">>, data |-> [restart_required |-> 0]]

Notify(events, secs) ==
  [method |-> "NotifyEvent", params |-> WithSections([events |-> events], secs)]
NotifyStatus(keys, secs) ==
  [method |-> "NotifyStatus", params |-> WithSections(keys, secs)]

Payload(shape, data, chans, secs) ==
  [shape |-> shape, data |-> data, chans |-> chans, secs |-> secs]

Payloads ==
  << Payload("normalized",
             [channels |-> ("0" :> ChannelOf(Em1Full(0), 0)),
              energy_data |-> ("0" :> EnergyOf(Em1DataFull(0), 0))], {"0"}, {}),
     Payload("normalized",
             [channels |-> ("1" :> ChannelOf(Em1Full(1), 1)),
              energy_data |-> ("1" :> EnergyOf(Em1DataFull(1), 1))], {"1"}, {}),
     Payload("normalized",
             WithSections([channels |-> ("0" :> ChannelOf(Em1Full(0), 0))
                                          @@ ("1" :> ChannelOf(Em1Full(1), 1)),
                           energy_data |-> ("0" :> EnergyOf(Em1DataFull(0), 0))
                                             @@ ("1" :> EnergyOf(Em1DataFull(1), 1)),
                           ts |-> 1000], Sections), {"0", "1"}, Sections),
     Payload("normalized", [channels |-> EmptyObj, energy_data |-> EmptyObj], {}, {}),
     Payload("notify", Notify(<<DataEvent("0", <<VecA>>)>>, {}), {"0"}, {}),
     Payload("notify", Notify(<<DataEvent("0", <<VecB>>)>>, {}), {"0"}, {}),
     Payload("notify", Notify(<<DataEvent("1", <<VecA>>)>>, {}), {"1"}, {}),
     Payload("notify", Notify(<<DataEvent("0", <<VecShort>>)>>, {}), {"0"}, {}),
     Payload("notify", Notify(<<DataEvent("0", <<>>)>>, {}), {}, {}),
     Payload("notify", Notify(<<DataEvent("0", <<VecA2, VecB>>)>>, {}), {"0"}, {}),
     Payload("notify", Notify(<<Em1Event("0", Em1Full(0))>>, {}), {"0"}, {}),
     Payload("notify", Notify(<<Em1Event("1", Em1Sparse)>>, {}), {"1"}, {}),
     Payload("notify", Notify(<<OtherEvent>>, {}), {}, {}),
     Payload("notify", Notify(<<DataEvent("0", <<VecA>>), DataEvent("0", <<VecB>>)>>, {}),
             {"0"}, {}),
     Payload("notify", Notify(<<DataEvent("0", <<VecA>>), Em1Event("0", Em1Full(0))>>, {}),
             {"0"}, {}),
     Payload("notify", Notify(<<Em1Event("0", Em1Full(0)), DataEvent("0", <<VecA>>)>>, {}),
             {"0"}, {}),
     Payload("notify", Notify(<<DataEvent("0", <<VecA>>), DataEvent("1", <<VecB>>)>>, {}),
             {"0", "1"}, {}),
     Payload("notify", Notify(<<DataEvent("0", <<VecA>>), DataEvent("0", <<VecShort>>)>>, {}),
             {"0"}, {}),
     Payload("notify", Notify(<<DataEvent("0", <<VecA>>)>>, Sections) , {"0"}, Sections),
     Payload("notify", Notify(<<DataEvent("1", <<VecA>>)>>, {"wifi"}), {"1"}, {"wifi"}),
     Payload("status", NotifyStatus("em1:0" :> Em1Full(0), {}), {"0"}, {}),
     Payload("status", NotifyStatus(("em1:1" :> Em1Sparse) @@ ("em1data:1" :> Em1DataFull(1)),
                                    {}), {"1"}, {}),
     Payload("status",
             NotifyStatus(("em1:0" :> Em1Full(0)) @@ ("em1:1" :> Em1Full(1))
                            @@ ("em1data:0" :> Em1DataFull(0))
                            @@ ("em1data:1" :> Em1DataFull(1)) @@ [ts |-> 2000], Sections),
             {"0", "1"}, Sections),
     Payload("status", NotifyStatus(EmptyObj, {"wifi"}), {}, {"wifi"}),
     Payload("bare", "em1:0" :> Em1Full(0), {"0"}, {}),
     Payload("bare", ("em1:1" :> Em1Full(1)) @@ ("em1data:1" :> Em1DataFull(1)), {"1"}, {}),
     Payload("bare", WithSections("em1:0" :> Em1Sparse, Sections), {"0"}, Sections),
     Payload("normalized",
             [channels |-> ("0" :> ChannelOf(Em1Full(0), 0)),
              energy_data |-> ("0" :> EnergyOf(Em1DataFull(0), 0))]
               @@ Notify(<<DataEvent("1", <<VecA>>)>>, {"wifi"}), {"0"}, {}),
     Payload("normalized",
             [channels |-> ("0" :> ChannelOf(Em1Full(0), 0)),
              energy_data |-> ("0" :> EnergyOf(Em1DataFull(0), 0))]
               @@ ("em1:1" :> Em1Full(1)), {"0"}, {}),
     Payload("notify",
             [method |-> "NotifyEvent",
              params |-> [events |-> <<DataEvent("0", <<VecA>>)>>]
                           @@ ("em1:1" :> Em1Full(1)) @@ ("em1data:1" :> Em1DataFull(1))],
             {"0"}, {}),
     Payload("notify", Notify(<<DataEvent("1", <<VecB>>)>>, {}) @@ ("em1:0" :> Em1Full(0)),
             {"1"}, {}),
     Payload("status", NotifyStatus("em1:0" :> Em1Full(0), {}) @@ ("em1:1" :> Em1Full(1)),
             {"0"}, {}),
     Payload("status",
             [method |-> "NotifyStatus",
              params |-> [events |-> <<DataEvent("1", <<VecA>>)>>]
                           @@ ("em1:0" :> Em1Full(0))],
             {"0"}, {}),
     Payload("unrecognized", [foo |-> 1], {}, {}),
     Payload("unrecognized", "em1data:0" :> Em1DataFull(0), {"0"}, {}) >>

PayloadIds == 1..Len(Payloads)

InitialStatus ==
  [channels |-> [c \in {"0", "1"} |-> Undefined],
   energy_data |-> [c \in {"0", "1"} |-> Undefined],
   wifi |-> Undefined, sys |-> Undefined, device |-> Undefined, mqtt |-> Undefined,
   ts |-> UndefNum]

EmInit ==
  /\ emMounted = TRUE
  /\ emStatus = InitialStatus
  /\ emPrev = InitialStatus
  /\ emError = "none"
  /\ emLoading = TRUE
  /\ emPolls = 0
  /\ emLast = [kind |-> "none", payload |-> 0, extracted |-> Undefined, after |-> "none"]

\* a poll's response arrives with success and data: extract, merge, clear the error
EmPollData(i) ==
  /\ emMounted
  /\ emPolls < MaxPolls
  /\ emPolls' = emPolls + 1
  /\ LET newData == ExtractShellyData(Payloads[i].data)
     IN  /\ emStatus' = MergeStatus(emStatus, newData)
         /\ emLast' = [kind |-> "data", payload |-> i, extracted |-> newData,
                       after |-> emLast.kind]
  /\ emPrev' = emStatus
  /\ emError' = "none"
  /\ emLoading' = FALSE
  /\ UNCHANGED emMounted
  /\ UNCHANGED notEm

\* a poll's response arrives without success or without data: nothing is shown
EmPollNoData ==
  /\ emMounted
  /\ emPolls < MaxPolls
  /\ emPolls' = emPolls + 1
  /\ emLast' = [kind |-> "nodata", payload |-> 0, extracted |-> Undefined,
                after |-> emLast.kind]
  /\ emPrev' = emStatus
  /\ UNCHANGED <<emMounted, emStatus, emError, emLoading>>
  /\ UNCHANGED notEm

\* a poll fails (HTTP error or network failure)
EmPollError ==
  /\ emMounted
  /\ emPolls < MaxPolls
  /\ emPolls' = emPolls + 1
  /\ emLast' = [kind |-> "error", payload |-> 0, extracted |-> Undefined,
                after |-> emLast.kind]
  /\ emPrev' = emStatus
  /\ emError' = "err"
  /\ emLoading' = FALSE
  /\ UNCHANGED <<emMounted, emStatus>>
  /\ UNCHANGED notEm

\* the panel unmounts: later responses are dropped
EmUnmount ==
  /\ emMounted
  /\ emMounted' = FALSE
  /\ UNCHANGED <<emStatus, emPrev, emLast, emError, emLoading, emPolls>>
  /\ UNCHANGED notEm

EmNext ==
  \/ \E i \in PayloadIds : EmPollData(i)
  \/ EmPollNoData
  \/ EmPollError
  \/ EmUnmount

(***************************************************************************)
(* Shelly 1PM Mini Gen3 panel: callAPI, fetchStatus and the buttons.       *)
(***************************************************************************)
SwitchActions == {"switch_on", "switch_off", "switch_toggle"}
TimerActions == {"set_auto_off", "set_auto_on"}
StateChanging == SwitchActions \cup TimerActions
InfoActions == {"fetch_device_info", "fetch_wifi_status"}
ButtonActions == StateChanging \cup InfoActions
ActionNames == ButtonActions \cup {"fetch_status"}

\* an action name as the words between its underscores
NameWords(a) ==
  CASE a = "switch_on" -> {"switch", "on"}
    [] a = "switch_off" -> {"switch", "off"}
    [] a = "switch_toggle" -> {"switch", "toggle"}
    [] a = "set_auto_off" -> {"set", "auto", "off"}
    [] a = "set_auto_on" -> {"set", "auto", "on"}
    [] a = "fetch_status" -> {"fetch", "status"}
    [] a = "fetch_device_info" -> {"fetch", "device", "info"}
    [] a = "fetch_wifi_status" -> {"fetch", "wifi", "status"}

\* actionName.includes('switch') || actionName.includes('timer')
RefreshesStatus(a) == "switch" \in NameWords(a) \/ "timer" \in NameWords(a)

TimerValues == {0, 30}    \* auto_off / auto_on seconds a status response reports

\* calls of action a in flight: awaiting the response, awaiting the refresh
InFlight(a) == pmCall[a].req + pmCall[a].ref

\* history: no status response since the last edit of a timer input
NoStatus == [got |-> FALSE, auto_off |-> 0, auto_on |-> 0]

\* fetchStatus stores a successful status response
StoreStatus(auto_off, auto_on) ==
  /\ pmAutoOff' = IF auto_off # 0 THEN auto_off ELSE pmAutoOff
  /\ pmAutoOn' = IF auto_on # 0 THEN auto_on ELSE pmAutoOn

\* the mount effect: fetchStatus(), fetchDeviceInfo(), fetchWiFiStatus()
MountCalls(calls) ==
  [a \in ButtonActions |->
     IF a \in InfoActions THEN [calls[a] EXCEPT !.req = @ + 1] ELSE calls[a]]

PmInit ==
  /\ pmMounted = TRUE
  /\ pmLoading = [a \in ActionNames |-> a \in InfoActions \cup {"fetch_status"}]
  /\ pmCall = MountCalls([a \in ButtonActions |-> [req |-> 0, ref |-> 0]])
  /\ pmPolls = 1
  /\ pmError = "none"
  /\ pmAutoOff = 0
  /\ pmAutoOn = 0
  /\ pmClicks = 0
  /\ pmLastClick = "none"
  /\ pmRenames = 0
  /\ pmDone = [action |-> "none", ok |-> FALSE, refreshed |-> FALSE, status |-> NoStatus]

\* mutant: the button of action a is not disabled while loading[a]
PmClickUngated(a) ==
  /\ pmMounted
  /\ pmClicks < MaxClicks
  /\ pmClicks' = pmClicks + 1
  /\ pmLastClick' = a
  /\ pmCall' = [pmCall EXCEPT ![a].req = @ + 1]
  /\ pmLoading' = [pmLoading EXCEPT ![a] = TRUE]
  /\ pmError' = "none"
  /\ UNCHANGED <<pmMounted, pmPolls, pmAutoOff, pmAutoOn, pmRenames, pmDone>>
  /\ UNCHANGED notPm

\* the operator presses the button of action a (disabled while loading[a]):
\* callAPI sets the flag of a and clears the error
PmClick(a) ==
  /\ pmMounted
  /\ ~pmLoading[a]
  /\ pmClicks < MaxClicks
  /\ pmClicks' = pmClicks + 1
  /\ pmLastClick' = a
  /\ pmCall' = [pmCall EXCEPT ![a].req = @ + 1]
  /\ pmLoading' = [pmLoading EXCEPT ![a] = TRUE]
  /\ pmError' = "none"
  /\ UNCHANGED <<pmMounted, pmPolls, pmAutoOff, pmAutoOn, pmRenames, pmDone>>
  /\ UNCHANGED notPm

\* the response of a request of action a arrives
PmCallSettle(a, ok) ==
  /\ pmCall[a].req > 0
  /\ IF ok /\ RefreshesStatus(a)
       THEN \* await fetchStatus(): callAPI('/status', null, 'fetch_status') starts
            /\ pmCall' = [pmCall EXCEPT ![a] = [req |-> @.req - 1, ref |-> @.ref + 1]]
            /\ pmLoading' = [pmLoading EXCEPT !["fetch_status"] = TRUE]
            /\ pmError' = "none"
            /\ UNCHANGED pmDone
       ELSE /\ pmCall' = [pmCall EXCEPT ![a].req = @ - 1]
            /\ pmLoading' = [pmLoading EXCEPT ![a] = FALSE]
            /\ pmError' = IF ok THEN pmError ELSE "err"
            /\ pmDone' = [pmDone EXCEPT !.action = a, !.ok = ok, !.refreshed = FALSE]
  /\ UNCHANGED <<pmMounted, pmPolls, pmAutoOff, pmAutoOn, pmClicks, pmLastClick, pmRenames>>
  /\ UNCHANGED notPm

\* the status fetch awaited by a call of action a settles, then the call completes
PmRefreshSettle(a, ok, auto_off, auto_on) ==
  /\ pmCall[a].ref > 0
  /\ pmCall' = [pmCall EXCEPT ![a].ref = @ - 1]
  /\ pmLoading' = [pmLoading EXCEPT !["fetch_status"] = FALSE, ![a] = FALSE]
  /\ IF ok
       THEN StoreStatus(auto_off, auto_on) /\ UNCHANGED pmError
       ELSE pmError' = "err" /\ UNCHANGED <<pmAutoOff, pmAutoOn>>
  /\ pmDone' = [action |-> a, ok |-> TRUE, refreshed |-> TRUE,
                status |-> IF ok THEN [got |-> TRUE, auto_off |-> auto_off, auto_on |-> auto_on]
                                 ELSE pmDone.status]
  /\ UNCHANGED <<pmMounted, pmPolls, pmClicks, pmLastClick, pmRenames>>
  /\ UNCHANGED notPm

\* the 5 s interval fires: fetchStatus
PmPollTick ==
  /\ pmMounted
  /\ pmPolls < MaxStatusPolls
  /\ pmPolls' = pmPolls + 1
  /\ pmLoading' = [pmLoading EXCEPT !["fetch_status"] = TRUE]
  /\ pmError' = "none"
  /\ UNCHANGED <<pmMounted, pmCall, pmAutoOff, pmAutoOn, pmClicks, pmLastClick, pmRenames, pmDone>>
  /\ UNCHANGED notPm

\* a status fetch issued by the mount effect or by the interval settles
PmPollSettle(ok, auto_off, auto_on) ==
  /\ pmPolls > 0
  /\ pmPolls' = pmPolls - 1
  /\ pmLoading' = [pmLoading EXCEPT !["fetch_status"] = FALSE]
  /\ IF ok
       THEN StoreStatus(auto_off, auto_on) /\ UNCHANGED pmError
       ELSE pmError' = "err" /\ UNCHANGED <<pmAutoOff, pmAutoOn>>
  /\ pmDone' = [pmDone EXCEPT !.status =
                  IF ok THEN [got |-> TRUE, auto_off |-> auto_off, auto_on |-> auto_on] ELSE @]
  /\ UNCHANGED <<pmMounted, pmCall, pmClicks, pmLastClick, pmRenames>>
  /\ UNCHANGED notPm

\* the operator edits a timer input
PmEditTimer(which, v) ==
  /\ pmMounted
  /\ IF which = "auto_off"
       THEN pmAutoOff' = v /\ UNCHANGED pmAutoOn
       ELSE pmAutoOn' = v /\ UNCHANGED pmAutoOff
  /\ pmDone' = [pmDone EXCEPT !.status = NoStatus]
  /\ UNCHANGED <<pmMounted, pmLoading, pmCall, pmPolls, pmError, pmClicks, pmLastClick, pmRenames>>
  /\ UNCHANGED notPm

\* sensorName changes: the effect is cleaned up (clearInterval) and runs again,
\* issuing the three fetches whatever the loading flags are
PmRename ==
  /\ pmMounted
  /\ pmRenames < MaxPmRenames
  /\ pmRenames' = pmRenames + 1
  /\ pmPolls' = pmPolls + 1
  /\ pmCall' = MountCalls(pmCall)
  /\ pmLoading' = [a \in ActionNames |->
                     IF a \in InfoActions \cup {"fetch_status"} THEN TRUE ELSE pmLoading[a]]
  /\ pmError' = "none"
  /\ UNCHANGED <<pmMounted, pmAutoOff, pmAutoOn, pmClicks, pmLastClick, pmDone>>
  /\ UNCHANGED notPm

\* the panel unmounts: the interval is cleared
PmUnmount ==
  /\ pmMounted
  /\ pmMounted' = FALSE
  /\ UNCHANGED <<pmLoading, pmCall, pmPolls, pmError, pmAutoOff, pmAutoOn, pmClicks,
                 pmLastClick, pmRenames, pmDone>>
  /\ UNCHANGED notPm

PmNext ==
  \/ \E a \in ButtonActions : PmClick(a)
  \/ \E a \in ButtonActions, ok \in BOOLEAN : PmCallSettle(a, ok)
  \/ \E a \in ButtonActions, ok \in BOOLEAN, x \in TimerValues, y \in TimerValues :
       PmRefreshSettle(a, ok, x, y)
  \/ PmPollTick
  \/ \E ok \in BOOLEAN, x \in TimerValues, y \in TimerValues : PmPollSettle(ok, x, y)
  \/ \E which \in {"auto_off", "auto_on"}, v \in TimerValues : PmEditTimer(which, v)
  \/ PmUnmount

\* one button of each kind: refreshing, not refreshing, also fetched at mount
GateActions == {"switch_on", "set_auto_off", "fetch_device_info"}

\* the steps that start and complete calls, sensorName changes included; the
\* status responses carry no timers
PmGateNext ==
  \/ \E a \in GateActions : PmClick(a)
  \/ \E a \in ButtonActions, ok \in BOOLEAN : PmCallSettle(a, ok)
  \/ \E a \in ButtonActions, ok \in BOOLEAN : PmRefreshSettle(a, ok, 0, 0)
  \/ \E ok \in BOOLEAN : PmPollSettle(ok, 0, 0)
  \/ PmRename
  \/ PmUnmount

(***************************************************************************)
(* Shelly H&T panel: the 60 s polling loop and the three views.            *)
(***************************************************************************)
MaxHtFetch == 2      \* cap on concurrently outstanding fetchData calls

\* result.data of a response; 0 stands for an absent or empty reading, which
\* fetchData stores as {} (result.data || {})
HtReadings == {0, 1, 2}

HtInit ==
  /\ htMounted = TRUE
  /\ htInterval = TRUE
  /\ htData = 0
  /\ htLoading = TRUE
  /\ htError = "none"
  /\ htFetch = 1
  /\ htLast = [settled |-> "none", after |-> "none", data |-> 0, reading |-> 0,
               got |-> FALSE]

\* a view that blocks whenever a request is in flight
HtViewBlocking ==
  IF htLoading THEN "loading"
  ELSE IF htError # "none" THEN "error"
  ELSE "main"

\* the view the component returns: the blocking loading view, the error view
\* with its "Riprova" button, or the reading
HtView ==
  IF htLoading /\ htData = 0 THEN "loading"
  ELSE IF htError # "none" THEN "error"
  ELSE "main"

\* fetchData up to its request
HtFetchStart ==
  /\ htFetch < MaxHtFetch
  /\ htFetch' = htFetch + 1
  /\ htLoading' = TRUE
  /\ UNCHANGED <<htMounted, htInterval, htData, htError, htLast>>
  /\ UNCHANGED notHt

\* the interval fires
HtTick ==
  /\ htInterval
  /\ HtFetchStart

\* "Riprova" button of the error view
HtRetry ==
  /\ htMounted
  /\ HtView = "error"
  /\ HtFetchStart

\* a failed poll that also stops the loop
HtSettleStopping(ok, d) ==
  /\ htFetch > 0
  /\ htFetch' = htFetch - 1
  /\ htInterval' = (htInterval /\ ok)
  /\ IF htMounted
       THEN /\ htLoading' = FALSE
            /\ IF ok
                 THEN /\ htData' = d
                      /\ htError' = "none"
                 ELSE /\ htError' = "err"
                      /\ UNCHANGED htData
            /\ htLast' = [settled |-> IF ok THEN "ok" ELSE "failed",
                          after |-> htLast.settled,
                          data |-> IF ok THEN d ELSE htLast.data,
                          reading |-> IF ok /\ d # 0 THEN d ELSE htLast.reading,
                          got |-> htLast.got \/ ok]
       ELSE UNCHANGED <<htLoading, htData, htError, htLast>>
  /\ UNCHANGED htMounted
  /\ UNCHANGED notHt

\* a fetchData call settles with reading d (ok) or fails; the setters of an
\* unmounted component do nothing
HtSettle(ok, d) ==
  /\ htFetch > 0
  /\ htFetch' = htFetch - 1
  /\ IF htMounted
       THEN /\ htLoading' = FALSE
            /\ IF ok
                 THEN /\ htData' = d
                      /\ htError' = "none"
                 ELSE /\ htError' = "err"
                      /\ UNCHANGED htData
            /\ htLast' = [settled |-> IF ok THEN "ok" ELSE "failed",
                          after |-> htLast.settled,
                          data |-> IF ok THEN d ELSE htLast.data,
                          reading |-> IF ok /\ d # 0 THEN d ELSE htLast.reading,
                          got |-> htLast.got \/ ok]
       ELSE UNCHANGED <<htLoading, htData, htError, htLast>>
  /\ UNCHANGED <<htMounted, htInterval>>
  /\ UNCHANGED notHt

\* the panel unmounts: cleanup clears the interval
HtUnmount ==
  /\ htMounted
  /\ htMounted' = FALSE
  /\ htInterval' = FALSE
  /\ UNCHANGED <<htData, htLoading, htError, htFetch, htLast>>
  /\ UNCHANGED notHt

HtNext ==
  \/ HtTick
  \/ HtRetry
  \/ \E ok \in BOOLEAN, d \in HtReadings : HtSettle(ok, d)
  \/ HtUnmount

(***************************************************************************)
(* Shelly Pro 50EM panel, revision with the "Aggiorna Stato" command       *)
(* button: sendRPCCommand and the polling effect.                          *)
(***************************************************************************)
MaxRpcClicks == 2    \* presses of the command button on one panel
MaxRpcFetch == 2     \* cap on concurrently outstanding fetchStatus calls

RpcInit ==
  /\ rpcMounted = TRUE
  /\ rpcInterval = TRUE
  /\ rpcLoading = FALSE
  /\ rpcCalls = 0
  /\ rpcTimers = 0
  /\ rpcFetch = 1
  /\ rpcClicks = 0
  /\ rpcStatus = 0
  /\ rpcLate = [fired |-> FALSE, requested |-> FALSE]

\* fetchStatus is called: a status request goes out
RpcFetchStatus ==
  /\ rpcFetch < MaxRpcFetch
  /\ rpcFetch' = rpcFetch + 1

\* the command button: sendRPCCommand up to the request of callAPI
RpcClick ==
  /\ rpcMounted
  /\ ~rpcLoading
  /\ rpcClicks < MaxRpcClicks
  /\ rpcClicks' = rpcClicks + 1
  /\ rpcCalls' = rpcCalls + 1
  /\ rpcLoading' = TRUE
  /\ UNCHANGED <<rpcMounted, rpcInterval, rpcTimers, rpcFetch, rpcStatus, rpcLate>>
  /\ UNCHANGED notRpc

\* the command's response arrives: callAPI clears the flag; after a success
\* sendRPCCommand sets the 1 s timeout, after a failure it only logs
RpcCallSettle(ok) ==
  /\ rpcCalls > 0
  /\ rpcCalls' = rpcCalls - 1
  /\ rpcLoading' = (IF rpcMounted THEN FALSE ELSE rpcLoading)
  /\ rpcTimers' = (IF ok THEN rpcTimers + 1 ELSE rpcTimers)
  /\ UNCHANGED <<rpcMounted, rpcInterval, rpcFetch, rpcClicks, rpcStatus, rpcLate>>
  /\ UNCHANGED notRpc

\* a 1 s timeout fires: fetchStatus
RpcTimeout ==
  /\ rpcTimers > 0
  /\ rpcTimers' = rpcTimers - 1
  /\ RpcFetchStatus
  /\ rpcLate' = IF rpcMounted THEN rpcLate ELSE [fired |-> TRUE, requested |-> TRUE]
  /\ UNCHANGED <<rpcMounted, rpcInterval, rpcLoading, rpcCalls, rpcClicks, rpcStatus>>
  /\ UNCHANGED notRpc

\* the 5 s interval fires: fetchStatus
RpcTick ==
  /\ rpcInterval
  /\ RpcFetchStatus
  /\ rpcLate' = IF rpcMounted THEN rpcLate ELSE [fired |-> TRUE, requested |-> TRUE]
  /\ UNCHANGED <<rpcMounted, rpcInterval, rpcLoading, rpcCalls, rpcTimers, rpcClicks,
                 rpcStatus>>
  /\ UNCHANGED notRpc

\* a fetchStatus call settles: callAPI stores result.data when there is one
\* (d # 0); the setter of an unmounted component does nothing
RpcFetchSettle(ok, d) ==
  /\ rpcFetch > 0
  /\ rpcFetch' = rpcFetch - 1
  /\ rpcStatus' = (IF rpcMounted /\ ok /\ d # 0 THEN d ELSE rpcStatus)
  /\ UNCHANGED <<rpcMounted, rpcInterval, rpcLoading, rpcCalls, rpcTimers, rpcClicks,
                 rpcLate>>
  /\ UNCHANGED notRpc

\* the panel unmounts: the cleanup clears the interval, and nothing else
RpcUnmount ==
  /\ rpcMounted
  /\ rpcMounted' = FALSE
  /\ rpcInterval' = FALSE
  /\ UNCHANGED <<rpcLoading, rpcCalls, rpcTimers, rpcFetch, rpcClicks, rpcStatus, rpcLate>>
  /\ UNCHANGED notRpc

RpcNext ==
  \/ RpcClick
  \/ \E ok \in BOOLEAN : RpcCallSettle(ok)
  \/ RpcTimeout
  \/ RpcTick
  \/ \E ok \in BOOLEAN, d \in {0, 1, 2} : RpcFetchSettle(ok, d)
  \/ RpcUnmount

(***************************************************************************)
(* Grow-box panel: the onToggle handlers of the five actuator buttons.     *)
(***************************************************************************)
MaxToggleClicks == 2   \* presses of actuator buttons on one panel

NoCall == [phase |-> "none", action |-> "none"]

TgInit ==
  /\ tgCall = [a \in Actuators |-> NoCall]
  /\ tgClicks = 0
  /\ tgLast = [actuator |-> "none", event |-> "none", was |-> {}, resp |-> RespBare(NoData)]

\* the panel renders the actuator buttons: neither the loading nor the error view
ButtonsShown == gMounted /\ ~(gLoading /\ gData = 0) /\ gError = "none"

\* a handler that flips the displayed state before it sends the command
GrowToggleOptimistic(a) ==
  /\ ButtonsShown
  /\ tgCall[a].phase = "none"
  /\ tgClicks < MaxToggleClicks
  /\ tgClicks' = tgClicks + 1
  /\ LET action == IF a \in gShown.actuators THEN "off" ELSE "on"
     IN  /\ tgCall' = [tgCall EXCEPT ![a] = [phase |-> "sent", action |-> action]]
         /\ gShown' = [gShown EXCEPT !.actuators =
                         IF action = "on" THEN @ \cup {a} ELSE @ \ {a}]
  /\ tgLast' = [tgLast EXCEPT !.actuator = a, !.event = "click", !.was = gShown.actuators]
  /\ UNCHANGED <<gMounted, gSensor, gTimer, gSched, gManual, gData, gLastData, gFresh,
                 gLoading, gError, gStatus, gFaseReads, gLast, gSeenAny, gArm>>
  /\ UNCHANGED notGrowTg

\* onToggle of actuator a up to its request: the action is the opposite of the
\* displayed state, the button is disabled while its flag is set
GrowToggle(a) ==
  /\ ButtonsShown
  /\ tgCall[a].phase = "none"
  /\ tgClicks < MaxToggleClicks
  /\ tgClicks' = tgClicks + 1
  /\ LET action == IF a \in gShown.actuators THEN "off" ELSE "on"
     IN  tgCall' = [tgCall EXCEPT ![a] = [phase |-> "sent", action |-> action]]
  /\ tgLast' = [tgLast EXCEPT !.actuator = a, !.event = "click", !.was = gShown.actuators]
  /\ UNCHANGED growVars
  /\ UNCHANGED notGrowTg

\* the command's response arrives: after a success the handler awaits
\* fetchCultivationStatus, after a failure it alerts and clears its flag
GrowToggleSettle(a, ok) ==
  /\ tgCall[a].phase = "sent"
  /\ tgCall' = [tgCall EXCEPT ![a] = IF ok THEN [@ EXCEPT !.phase = "reading"] ELSE NoCall]
  /\ tgLast' = [tgLast EXCEPT !.actuator = a, !.event = IF ok THEN "ok" ELSE "failed"]
  /\ IF ok THEN ReadStarts ELSE UNCHANGED gLast
  /\ UNCHANGED <<gMounted, gSensor, gTimer, gSched, gManual, gData, gLastData, gFresh,
                 gLoading, gError, gShown, gStatus, gFaseReads, gSeenAny, gArm>>
  /\ UNCHANGED tgClicks
  /\ UNCHANGED notGrowTg

\* the awaited fetchCultivationStatus settles, then the handler clears its flag
GrowToggleRead(a, ok, r) ==
  /\ tgCall[a].phase = "reading"
  /\ tgCall' = [tgCall EXCEPT ![a] = NoCall]
  /\ tgLast' = [tgLast EXCEPT !.actuator = a, !.resp = r,
                              !.event = IF ok THEN "read" ELSE "readfailed"]
  /\ IF gMounted /\ ok
       THEN /\ gShown' = ShowStatus(gShown, r)
            /\ gData' = IF r.sensor_data # NoData THEN r.sensor_data ELSE gData
            /\ gStatus + ActiveReads(gShown') <= MaxReads
            /\ gStatus' = gStatus + ActiveReads(gShown')
            /\ ReadResolved(r, StatusInFlight - 1, ActiveReads(gShown'))
            /\ SeesChange
       ELSE UNCHANGED <<gShown, gData, gStatus, gLast, gSeenAny>>
  /\ UNCHANGED <<gMounted, gSensor, gTimer, gSched, gManual, gLastData, gFresh, gLoading,
                 gError, gFaseReads, gArm>>
  /\ UNCHANGED tgClicks
  /\ UNCHANGED notGrowTg

\* responses of the combined status: with and without actuator_states
ToggleResponses == {RespFlower(1), RespSeedling(1), RespBare(1)}

\* the buttons of a panel that has shown its first poll
GrowToggleNext ==
  \/ \E ok \in BOOLEAN, r \in ToggleResponses : GrowPollSettle(gSensor, ok, r)
  \/ \E a \in Actuators : GrowToggle(a)
  \/ \E a \in Actuators, ok \in BOOLEAN : GrowToggleSettle(a, ok)
  \/ \E a \in Actuators, ok \in BOOLEAN, r \in ToggleResponses : GrowToggleRead(a, ok, r)
  \/ GrowUnmount

(***************************************************************************)
(* Arduino WebSocket panel: startServer, the polling effect, sendCommand.  *)
(***************************************************************************)
MaxWsRenames == 1    \* sensorName changes of one mounted panel
MaxWsStarts == 2     \* presses of the start button
MaxWsFetch == 2      \* cap on concurrently outstanding data polls
MaxWsEdits == 2      \* edits of the pin field

WsSensors == 0..MaxWsRenames
NoSensor == 0 - 1
Ports == {1, 2}
DefaultPin == 13
PinMin == 0
PinMax == 255

\* content of the pin field handed to onChange: not a number (NaN after
\* parseInt, as for an emptied field) or a decimal integer
NotANumber == [nan |-> TRUE, n |-> 0]
Typed(n) == [nan |-> FALSE, n |-> n]
PinEntries == {NotANumber} \cup {Typed(n) : n \in {0 - 1, 0, 1, 7, PinMax, PinMax + 1}}

\* parseInt(e.target.value) || 13: NaN and 0 are falsy
PinOfEntry(e) == IF e.nan \/ e.n = 0 THEN DefaultPin ELSE e.n

WsInit ==
  /\ wsMounted = TRUE
  /\ wsSensor = 0
  /\ wsStarted = FALSE
  /\ wsPort = 0
  /\ wsLoading = [start |-> FALSE, command |-> FALSE]
  /\ wsStartFor = NoSensor
  /\ wsInterval = NoSensor
  /\ wsFetch = 0
  /\ wsPin = DefaultPin
  /\ wsStarts = 0
  /\ wsEdits = 0
  /\ wsHist = [startedFor |-> {}, polled |-> {}, start |-> "none", port |-> 0,
               entered |-> NotANumber, edited |-> FALSE,
               sent |-> [pin |-> NoSensor, running |-> FALSE, entered |-> NotANumber]]

\* the polling effect runs for sensor s: nothing unless serverStarted,
\* otherwise fetchData at once and the interval
WsEffect(started, s) ==
  IF started
    THEN /\ wsInterval' = s
         /\ wsFetch' = wsFetch + 1
         /\ wsFetch < MaxWsFetch
    ELSE /\ wsInterval' = NoSensor
         /\ UNCHANGED wsFetch

\* a start button that stays enabled
WsStartUnguarded ==
  /\ wsMounted
  /\ wsStartFor = NoSensor
  /\ wsStarts < MaxWsStarts
  /\ wsStarts' = wsStarts + 1
  /\ wsLoading' = [wsLoading EXCEPT !.start = TRUE]
  /\ wsStartFor' = wsSensor
  /\ UNCHANGED <<wsMounted, wsSensor, wsStarted, wsPort, wsInterval, wsFetch, wsPin, wsEdits,
                 wsHist>>
  /\ UNCHANGED notWs

\* the start button (disabled while loading.start or serverStarted): startServer
\* up to its request
WsStart ==
  /\ wsMounted
  /\ ~wsLoading.start /\ ~wsStarted
  /\ wsStarts < MaxWsStarts
  /\ wsStarts' = wsStarts + 1
  /\ wsLoading' = [wsLoading EXCEPT !.start = TRUE]
  /\ wsStartFor' = wsSensor
  /\ UNCHANGED <<wsMounted, wsSensor, wsStarted, wsPort, wsInterval, wsFetch, wsPin, wsEdits,
                 wsHist>>
  /\ UNCHANGED notWs

\* the start request settles: on success setPort and setServerStarted(true),
\* which runs the polling effect; the flag is cleared either way
WsStartSettle(ok, p) ==
  /\ wsStartFor # NoSensor
  /\ wsStartFor' = NoSensor
  /\ wsHist' = [wsHist EXCEPT
                  !.startedFor = IF ok THEN @ \cup {wsStartFor} ELSE @,
                  !.start = IF ok THEN "ok" ELSE "failed",
                  !.port = IF ok THEN p ELSE @,
                  !.polled = IF ok /\ wsMounted /\ ~wsStarted THEN @ \cup {wsSensor} ELSE @]
  /\ IF wsMounted
       THEN /\ wsLoading' = [wsLoading EXCEPT !.start = FALSE]
            /\ IF ok
                 THEN /\ wsPort' = p
                      /\ wsStarted' = TRUE
                      /\ IF wsStarted THEN UNCHANGED <<wsInterval, wsFetch>>
                                      ELSE WsEffect(TRUE, wsSensor)
                 ELSE UNCHANGED <<wsPort, wsStarted, wsInterval, wsFetch>>
       ELSE UNCHANGED <<wsLoading, wsPort, wsStarted, wsInterval, wsFetch>>
  /\ UNCHANGED <<wsMounted, wsSensor, wsPin, wsStarts, wsEdits>>
  /\ UNCHANGED notWs

\* the 2 s interval fires: fetchData of the effect run that set it
WsTick ==
  /\ wsInterval # NoSensor
  /\ wsFetch < MaxWsFetch
  /\ wsFetch' = wsFetch + 1
  /\ wsHist' = [wsHist EXCEPT !.polled = @ \cup {wsInterval}]
  /\ UNCHANGED <<wsMounted, wsSensor, wsStarted, wsPort, wsLoading, wsStartFor, wsInterval,
                 wsPin, wsStarts, wsEdits>>
  /\ UNCHANGED notWs

\* a data poll settles
WsFetchSettle ==
  /\ wsFetch > 0
  /\ wsFetch' = wsFetch - 1
  /\ UNCHANGED <<wsMounted, wsSensor, wsStarted, wsPort, wsLoading, wsStartFor, wsInterval,
                 wsPin, wsStarts, wsEdits, wsHist>>
  /\ UNCHANGED notWs

\* sensorName changes: the cleanup clears the interval and the polling
\* effect runs again with the new name
WsRename ==
  /\ wsMounted
  /\ wsSensor < MaxWsRenames
  /\ wsSensor' = wsSensor + 1
  /\ WsEffect(wsStarted, wsSensor + 1)
  /\ wsHist' = [wsHist EXCEPT !.polled = IF wsStarted THEN @ \cup {wsSensor + 1} ELSE @]
  /\ UNCHANGED <<wsMounted, wsStarted, wsPort, wsLoading, wsStartFor, wsPin, wsStarts,
                 wsEdits>>
  /\ UNCHANGED notWs

\* onChange of the pin field
WsEnterPin(e) ==
  /\ wsMounted
  /\ wsEdits < MaxWsEdits
  /\ wsEdits' = wsEdits + 1
  /\ wsPin' = PinOfEntry(e)
  /\ wsHist' = [wsHist EXCEPT !.entered = e, !.edited = TRUE]
  /\ UNCHANGED <<wsMounted, wsSensor, wsStarted, wsPort, wsLoading, wsStartFor, wsInterval,
                 wsFetch, wsStarts>>
  /\ UNCHANGED notWs

\* the send button (disabled while loading.command or not serverStarted):
\* sendCommand up to its request, which carries commandPin
WsSendCommand ==
  /\ wsMounted
  /\ ~wsLoading.command /\ wsStarted
  /\ wsLoading' = [wsLoading EXCEPT !.command = TRUE]
  /\ wsHist' = [wsHist EXCEPT !.sent = [pin |-> wsPin, running |-> wsStarted,
                                        entered |-> wsHist.entered]]
  /\ UNCHANGED <<wsMounted, wsSensor, wsStarted, wsPort, wsStartFor, wsInterval, wsFetch,
                 wsPin, wsStarts, wsEdits>>
  /\ UNCHANGED notWs

\* the command settles: the flag is cleared
WsCommandSettle ==
  /\ wsLoading.command
  /\ wsLoading' = [wsLoading EXCEPT !.command = IF wsMounted THEN FALSE ELSE @]
  /\ UNCHANGED <<wsMounted, wsSensor, wsStarted, wsPort, wsStartFor, wsInterval, wsFetch,
                 wsPin, wsStarts, wsEdits, wsHist>>
  /\ UNCHANGED notWs

\* the panel unmounts: the cleanup clears the interval
WsUnmount ==
  /\ wsMounted
  /\ wsMounted' = FALSE
  /\ wsInterval' = NoSensor
  /\ UNCHANGED <<wsSensor, wsStarted, wsPort, wsLoading, wsStartFor, wsFetch, wsPin,
                 wsStarts, wsEdits, wsHist>>
  /\ UNCHANGED notWs

\* the bridge and the polling effect
WsNext ==
  \/ WsStart
  \/ \E ok \in BOOLEAN, p \in Ports : WsStartSettle(ok, p)
  \/ WsTick
  \/ WsFetchSettle
  \/ WsRename
  \/ WsUnmount

\* the command section
WsPinNext ==
  \/ WsStart
  \/ \E ok \in BOOLEAN : WsStartSettle(ok, 1)
  \/ \E e \in PinEntries : WsEnterPin(e)
  \/ WsSendCommand
  \/ WsCommandSettle

(***************************************************************************)
(* Display functions: colour of the grow-box averages, colour of the 50EM  *)
(* active power, RSSI label.                                               *)
(***************************************************************************)
MaxValue == 3        \* largest average / target of the colour inputs
MaxRssi == 80        \* weakest signal of the inputs is -MaxRssi dBm

\* an optional number: undefined / null, or present with value v
Absent == [present |-> FALSE, v |-> 0]
Num(n) == [present |-> TRUE, v |-> n]

Green == "#4CAF50"
Red == "#F44336"
Orange == "#FF9800"
Grey == "#9E9E9E"
DarkGrey == "#757575"

\* colour of "Temperatura Media" / "Umidità Media"
AverageColour(avg, lo, hi) ==
  IF avg.present
    THEN IF lo.present /\ hi.present /\ avg.v >= lo.v /\ avg.v <= hi.v THEN Green ELSE Red
    ELSE Grey

\* the revisions of ShellyPro50EMControl, by file and first line
Revisions50EM == {"part_000:51", "part_001:47", "part_001:551", "part_002:51"}

\* !power: undefined and 0 are falsy
NoPower(power) == ~power.present \/ power.v = 0

\* getPowerColor of each revision
GetPowerColor(rev, power) ==
  IF NoPower(power) THEN DarkGrey
  ELSE IF rev = "part_001:47"
    THEN IF power.v > 5000 THEN Red ELSE IF power.v > 2000 THEN Orange ELSE Green
    ELSE IF power.v > 2000 THEN Red ELSE IF power.v > 1000 THEN Orange ELSE Green

\* the panels that show the RSSI label
RssiPanels == {"1pm", "ht", "50em"}

\* a classification whose first boundary includes -50
GetRSSIStrengthInclusive(panel, rssi) ==
  IF ~rssi.present THEN "N/A"
  ELSE IF rssi.v >= 0 - 50 THEN "Eccellente"
  ELSE IF rssi.v > 0 - 60 THEN "Buono"
  ELSE IF rssi.v > 0 - 70 THEN "Discreto"
  ELSE "Debole"

\* getRSSIStrength of the 1PM, the H&T and the 50EM panel
GetRSSIStrength(panel, rssi) ==
  CASE panel = "1pm" ->
         IF ~rssi.present THEN "N/A"
         ELSE IF rssi.v > 0 - 50 THEN "Eccellente"
         ELSE IF rssi.v > 0 - 60 THEN "Buono"
         ELSE IF rssi.v > 0 - 70 THEN "Discreto"
         ELSE "Debole"
    [] panel = "ht" ->
         IF ~rssi.present THEN "N/A"
         ELSE IF rssi.v > 0 - 50 THEN "Eccellente"
         ELSE IF rssi.v > 0 - 60 THEN "Buono"
         ELSE IF rssi.v > 0 - 70 THEN "Discreto"
         ELSE "Debole"
    [] panel = "50em" ->
         IF ~rssi.present THEN "N/A"
         ELSE IF rssi.v > 0 - 50 THEN "Eccellente"
         ELSE IF rssi.v > 0 - 60 THEN "Buono"
         ELSE IF rssi.v > 0 - 70 THEN "Discreto"
         ELSE "Debole"

PureIdle ==
  /\ fnIn = [fn |-> "none"]
  /\ fnOut = "none"

\* inputs of the average colour: reading and targets, each possibly absent,
\* target_min <= target_max when both are there
OptionalValues == {Absent} \cup {Num(n) : n \in 0..MaxValue}
AverageInputs ==
  {[fn |-> "average", of |-> q, avg |-> a, lo |-> l, hi |-> h] :
     q \in {"temperature", "humidity"},
     a \in OptionalValues, l \in OptionalValues, h \in OptionalValues}
AverageInit ==
  /\ fnIn \in {i \in AverageInputs : (i.lo.present /\ i.hi.present) => i.lo.v <= i.hi.v}
  /\ fnOut = "none"

\* the panel renders the average
RenderAverage ==
  /\ fnIn.fn = "average"
  /\ fnOut = "none"
  /\ fnOut' = AverageColour(fnIn.avg, fnIn.lo, fnIn.hi)
  /\ UNCHANGED fnIn
  /\ UNCHANGED notPure

\* inputs of the power colour: around every threshold, negative for returned power
PowerInputs ==
  {Absent} \cup {Num(w) : w \in {0 - 100, 0, 1, 500, 999, 1000, 1001, 1500, 2000, 2001,
                                2500, 3000, 5000, 5001, 6000}}
PowerInit ==
  /\ fnIn \in {[fn |-> "power", rev |-> r, power |-> p] : r \in Revisions50EM, p \in PowerInputs}
  /\ fnOut = "none"

\* a channel card renders its active power
RenderPower ==
  /\ fnIn.fn = "power"
  /\ fnOut = "none"
  /\ fnOut' = GetPowerColor(fnIn.rev, fnIn.power)
  /\ UNCHANGED fnIn
  /\ UNCHANGED notPure

RssiInputs == {Absent} \cup {Num(0 - n) : n \in 0..MaxRssi}
RssiInit ==
  /\ fnIn \in {[fn |-> "rssi", panel |-> p, rssi |-> r] : p \in RssiPanels, r \in RssiInputs}
  /\ fnOut = "none"

\* a panel renders the signal strength
RenderRssi ==
  /\ fnIn.fn = "rssi"
  /\ fnOut = "none"
  /\ fnOut' = GetRSSIStrength(fnIn.panel, fnIn.rssi)
  /\ UNCHANGED fnIn
  /\ UNCHANGED notPure

(***************************************************************************)
(* Shelly Dimmer 2 panel: the brightness slider, the presets and the       *)
(* buttons that send the brightness.                                       *)
(***************************************************************************)
MaxDmClicks == 2     \* presses of buttons that send the brightness

BrightnessMin == 1
BrightnessMax == 100
DefaultBrightness == 50
Presets == {25, 50, 75, 100}

\* positions of the range input: the browser keeps its value within min..max
SliderStops == {BrightnessMin, 30, 75, BrightnessMax}

\* the buttons whose request body carries brightness
BrightnessButtons == {"light_on", "set_brightness", "turn_on_brightness"}

DmInit ==
  /\ dmBrightness = DefaultBrightness
  /\ dmLoading = [a \in BrightnessButtons |-> FALSE]
  /\ dmClicks = 0
  /\ dmPreset = 0
  /\ dmSent = [action |-> "none", brightness |-> 0, preset |-> 0]

\* a preset button that only highlights itself
DmPresetUnstored(p) ==
  /\ dmPreset' = p
  /\ UNCHANGED <<dmBrightness, dmLoading, dmClicks, dmSent>>
  /\ UNCHANGED notDm

\* a preset button: setBrightness(p)
DmPreset(p) ==
  /\ dmBrightness' = p
  /\ dmPreset' = p
  /\ UNCHANGED <<dmLoading, dmClicks, dmSent>>
  /\ UNCHANGED notDm

\* the slider moves to v: setBrightness(parseInt(e.target.value))
DmSlide(v) ==
  /\ dmBrightness' = v
  /\ dmPreset' = 0
  /\ UNCHANGED <<dmLoading, dmClicks, dmSent>>
  /\ UNCHANGED notDm

\* a button that sends the brightness (disabled while its flag is set):
\* callAPI up to its request
DmCommand(a) ==
  /\ ~dmLoading[a]
  /\ dmClicks < MaxDmClicks
  /\ dmClicks' = dmClicks + 1
  /\ dmLoading' = [dmLoading EXCEPT ![a] = TRUE]
  /\ dmSent' = [action |-> a, brightness |-> dmBrightness, preset |-> dmPreset]
  /\ UNCHANGED <<dmBrightness, dmPreset>>
  /\ UNCHANGED notDm

\* the request settles: callAPI logs or alerts, then clears the flag
DmSettle(a) ==
  /\ dmLoading[a]
  /\ dmLoading' = [dmLoading EXCEPT ![a] = FALSE]
  /\ UNCHANGED <<dmBrightness, dmClicks, dmPreset, dmSent>>
  /\ UNCHANGED notDm

DmNext ==
  \/ \E p \in Presets : DmPreset(p)
  \/ \E v \in SliderStops : DmSlide(v)
  \/ \E a \in BrightnessButtons : DmCommand(a)
  \/ \E a \in BrightnessButtons : DmSettle(a)

(***************************************************************************)
(* Grow-box automation router: an automation pass running next to the      *)
(* lifecycle calls of the same sensor.  Handlers are not mutually          *)
(* exclusive; every read and every update of the configuration document is *)
(* one step.                                                               *)
(***************************************************************************)
MaxRcPasses == 1     \* automation passes begun in a behaviour

NoRcPass == [pc |-> "idle", todo |-> <<>>]

RcInit ==
  /\ rcPass = NoRcPass
  /\ rcPasses = 0

\* the LED state a handler works on: the cache entry, hydrated from the
\* document (the all-zero state when the document holds no LED field)
LoadLed(d, c, t) ==
  IF c # {} THEN CHOOSE l \in c : TRUE
  ELSE IF LedFields \subseteq DOMAIN d
    THEN [is_on |-> d["led_is_on"], last_toggle |-> d["led_last_toggle"],
          daily_on_seconds |-> d["led_daily_on_seconds"], last_reset |-> d["led_last_reset"]]
    ELSE ZeroLed(t)

\* the LED state written back to the document
PersistLed(d, l) ==
  SetField(SetField(SetField(SetField(d, "led_is_on", l.is_on), "led_last_toggle", l.last_toggle),
                    "led_daily_on_seconds", l.daily_on_seconds),
           "led_last_reset", l.last_reset)

\* start date the weeks are counted from
CycleStart(d, t) ==
  IF IsSet(d, "vegetative_start_date") THEN d["vegetative_start_date"]
  ELSE IF IsSet(d, "cultivation_start_date") THEN d["cultivation_start_date"]
  ELSE t

\* the pass is invoked for a new reading of a sensor with a stored phase: it
\* reads the phase and the targets and decides the commands of the hysteresis
\* steps
RcPassBegin(avg_temp, avg_hum) ==
  /\ rcPass.pc = "idle"
  /\ rcPasses < MaxRcPasses
  /\ IsSet(doc, "growth_phase")
  /\ LET tg == Targets(doc["growth_phase"], WeeksElapsed(lcNow, CycleStart(doc, lcNow)),
                       LoadLed(doc, cache, lcNow).is_on)
     IN  rcPass' = [pc |-> "commands",
                    todo |-> TemperatureCommands(tg, avg_temp) \o HumidityCommands(tg, avg_hum)]
  /\ rcPasses' = rcPasses + 1
  /\ UNCHANGED lcVars
  /\ UNCHANGED notLcRc

\* the next command of the pass, through the safe wrapper: on success the
\* boolean is persisted into the document
RcPassCommand(ok) ==
  /\ rcPass.pc = "commands"
  /\ rcPass.todo # <<>>
  /\ LET c == Head(rcPass.todo)
     IN  doc' = IF ok THEN SetField(doc, c.actuator, c.on) ELSE doc
  /\ rcPass' = [rcPass EXCEPT !.todo = Tail(@)]
  /\ UNCHANGED <<cache, lcNow, lcLast, rcPasses>>
  /\ UNCHANGED notLcRc

\* the LED scheduler at the end of the pass: load, daily reset, schedule,
\* the LED command if one is due, and the state persisted to the document
\* and to the cache
RcPassLed(ok) ==
  /\ rcPass.pc = "commands"
  /\ rcPass.todo = <<>>
  /\ LET ls == LedScheduleStep(LedDailyReset(LoadLed(doc, cache, lcNow), lcNow), lcNow)
         d1 == IF ls.cmds # <<>> /\ ok
                 THEN SetField(doc, "luce_led", ls.cmds[1].on)
                 ELSE doc
     IN  /\ doc' = PersistLed(d1, ls.led)
         /\ cache' = {ls.led}
  /\ rcPass' = NoRcPass
  /\ UNCHANGED <<lcNow, lcLast, rcPasses>>
  /\ UNCHANGED notLcRc

RaceNext ==
  \/ \E t \in {14, 29}, h \in {39, 75} : RcPassBegin(t, h)
  \/ \E ok \in BOOLEAN : RcPassCommand(ok)
  \/ \E ok \in BOOLEAN : RcPassLed(ok)
  \/ StartCultivation
  \/ \E fails \in {{}, {"ventola"}} : EndCultivation(fails)
  \/ LcHour

\* the panels no specification of the backend or of another panel moves
PanelsIdle == HtInit /\ RpcInit /\ TgInit /\ WsInit /\ PureIdle /\ DmInit /\ RcInit

(***************************************************************************)
(* Specifications, one per component.                                      *)
(***************************************************************************)
LedTicks == {90, 21700}

LedInit == GrowInit /\ EmInit /\ PmInit /\ PanelsIdle /\ LcIdle /\ AutoInitWith(InitLedStates, {<<"piantina", StartOfRun>>})
LedNext ==
  \/ \E d \in LedTicks : Tick(d)
  \/ \E fails \in LedFailSets : AutomationPass(21, 67, fails)
  \/ \E on \in BOOLEAN, ok \in BOOLEAN : LedEndpoint(on, ok)
SpecLed == LedInit /\ [][LedNext]_vars

Temps == {14, 15, 21, 25, 29}
Hums == {39, 40, 50, 60, 65, 67, 70, 75}

\* growth phase and start date of the cycles the climate runs start from
InitCycles ==
  {<<"piantina", StartOfRun>>, <<"fioritura", StartOfRun>>}
    \cup {<<"vegetativa", StartOfRun - w * WeekSeconds>> : w \in {0, 3, 6}}

ClimateInit ==
  /\ GrowInit
  /\ EmInit
  /\ PmInit
  /\ PanelsIdle
  /\ LcIdle
  /\ AutoInitWith({LedState(FALSE, 0, 0, 0), LedState(TRUE, 0, 0, 0)}, InitCycles)
ClimateNext ==
  \/ Tick(0)
  \/ \E t \in Temps, h \in Hums, fails \in FailSets : AutomationPass(t, h, fails)
SpecClimate == ClimateInit /\ [][ClimateNext]_vars

\* two passes with failing commands, out of band on both axes, with the LED due to toggle
SafeLedStates ==
  {LedState(FALSE, 0, 0, 0), LedState(TRUE, 90, 64750, 0), LedState(FALSE, 21700, 30000, 0)}
SafeInit ==
  /\ GrowInit
  /\ EmInit
  /\ PmInit
  /\ PanelsIdle
  /\ LcIdle
  /\ AutoInitWith(SafeLedStates, {<<"piantina", StartOfRun>>})
SafeNext ==
  \/ ticks = 0 /\ Tick(90)
  \/ \E t \in {14, 21, 29}, h \in {39, 67, 75}, fails \in FailSets : AutomationPass(t, h, fails)
SpecSafe == SafeInit /\ [][SafeNext]_vars

\* operator commands to the five direct endpoints
EndpointsInit ==
  /\ GrowInit
  /\ EmInit
  /\ PmInit
  /\ PanelsIdle
  /\ LcIdle
  /\ AutoInitWith(SafeLedStates, {<<"piantina", StartOfRun>>})
EndpointsNext ==
  \/ Tick(90)
  \/ \E a \in Actuators, on \in BOOLEAN, ok \in BOOLEAN : ActuatorEndpoint(a, on, ok)
  \/ \E on \in BOOLEAN, ok \in BOOLEAN : LedEndpoint(on, ok)
SpecEndpoints == EndpointsInit /\ [][EndpointsNext]_vars

\* vegetativa cycles of every age up to MaxWeeks weeks, some days into the week
VegetativeCycles ==
  {<<"vegetativa", StartOfRun - w * WeekSeconds - d * DaySeconds>> :
     w \in 0..MaxWeeks, d \in {0, 4}}
TargetsInit ==
  /\ GrowInit
  /\ EmInit
  /\ PmInit
  /\ PanelsIdle
  /\ LcIdle
  /\ AutoInitWith({LedState(FALSE, 0, 0, 0), LedState(TRUE, 0, 0, 0)}, VegetativeCycles)
TargetsNext ==
  \/ Tick(4 * DaySeconds)
  \/ \E t \in {16, 25, 30}, h \in {39, 52, 67} : AutomationPass(t, h, {})
SpecTargets == TargetsInit /\ [][TargetsNext]_vars

\* the LED scheduler across midnight, operator commands and new cycles
ResetInit ==
  /\ GrowInit
  /\ EmInit
  /\ PmInit
  /\ PanelsIdle
  /\ LcIdle
  /\ AutoInitWith(InitLedStates, {<<"piantina", StartOfRun>>})
ResetNext ==
  \/ \E d \in LedTicks : Tick(d)
  \/ \E fails \in LedFailSets : AutomationPass(21, 67, fails)
  \/ \E on \in BOOLEAN, ok \in BOOLEAN : LedEndpoint(on, ok)
  \/ StartCultivationLed
SpecReset == ResetInit /\ [][ResetNext]_vars

Init == GrowInit /\ AutoIdle /\ EmInit /\ PmInit /\ PanelsIdle /\ LcIdle
Next == GrowNext
Spec == Init /\ [][Next]_vars

SpecGrow == Spec

GrowStatusInit == GrowInit /\ AutoIdle /\ EmInit /\ PmInit /\ PanelsIdle /\ LcIdle
SpecGrowStatus == GrowStatusInit /\ [][GrowStatusNext]_vars

EmPanelInit == GrowInit /\ AutoIdle /\ EmInit /\ PmInit /\ PanelsIdle /\ LcIdle
SpecEm == EmPanelInit /\ [][EmNext]_vars

PmPanelInit == GrowInit /\ AutoIdle /\ EmInit /\ PmInit /\ PanelsIdle /\ LcIdle
SpecPm == PmPanelInit /\ [][PmNext]_vars

LifecycleInit == GrowInit /\ AutoIdle /\ EmInit /\ PmInit /\ PanelsIdle /\ LcInitWith(InitDocs)
SpecLifecycle == LifecycleInit /\ [][LifecycleNext]_vars

PmGateInit == GrowInit /\ AutoIdle /\ EmInit /\ PmInit /\ PanelsIdle /\ LcIdle
SpecPmGate == PmGateInit /\ [][PmGateNext]_vars

HtPanelInit == GrowInit /\ AutoIdle /\ EmInit /\ PmInit /\ PanelsIdle /\ LcIdle
SpecHt == HtPanelInit /\ [][HtNext]_vars

\* the polling loops of the three polling panels side by side
PollPayloads == {1}
PollResponses == {RespIdle(1), RespIdle(2)}
PollingInit == GrowInit /\ AutoIdle /\ EmInit /\ PmInit /\ PanelsIdle /\ LcIdle
PollingNext ==
  \/ GrowTimerFire
  \/ \E ok \in BOOLEAN, r \in PollResponses : GrowPollSettle(gSensor, ok, r)
  \/ GrowUnmount
  \/ \E i \in PollPayloads : EmPollData(i)
  \/ EmPollNoData
  \/ EmPollError
  \/ EmUnmount
  \/ HtTick
  \/ \E ok \in BOOLEAN : HtSettle(ok, 1)
  \/ HtUnmount
SpecPolling == PollingInit /\ [][PollingNext]_vars

RpcPanelInit == GrowInit /\ AutoIdle /\ EmInit /\ PmInit /\ PanelsIdle /\ LcIdle
SpecRpc == RpcPanelInit /\ [][RpcNext]_vars

GrowToggleInit == GrowInit /\ AutoIdle /\ EmInit /\ PmInit /\ PanelsIdle /\ LcIdle
SpecGrowToggle == GrowToggleInit /\ [][GrowToggleNext]_vars

WsPanelInit == GrowInit /\ AutoIdle /\ EmInit /\ PmInit /\ PanelsIdle /\ LcIdle
SpecWs == WsPanelInit /\ [][WsNext]_vars

WsPinInit == GrowInit /\ AutoIdle /\ EmInit /\ PmInit /\ PanelsIdle /\ LcIdle
SpecWsPin == WsPinInit /\ [][WsPinNext]_vars

\* every panel but the rendered function at rest
AverageColourInit ==
  GrowInit /\ AutoIdle /\ EmInit /\ PmInit /\ LcIdle /\ HtInit /\ RpcInit /\ TgInit /\ WsInit
    /\ DmInit /\ RcInit
    /\ AverageInit
SpecAverageColour == AverageColourInit /\ [][RenderAverage]_vars

PowerColourInit ==
  GrowInit /\ AutoIdle /\ EmInit /\ PmInit /\ LcIdle /\ HtInit /\ RpcInit /\ TgInit /\ WsInit
    /\ DmInit /\ RcInit
    /\ PowerInit
SpecPowerColour == PowerColourInit /\ [][RenderPower]_vars

RssiLabelInit ==
  GrowInit /\ AutoIdle /\ EmInit /\ PmInit /\ LcIdle /\ HtInit /\ RpcInit /\ TgInit /\ WsInit
    /\ DmInit /\ RcInit
    /\ RssiInit
SpecRssi == RssiLabelInit /\ [][RenderRssi]_vars

DmPanelInit == GrowInit /\ AutoIdle /\ EmInit /\ PmInit /\ PanelsIdle /\ LcIdle
SpecDimmer == DmPanelInit /\ [][DmNext]_vars

\* each sensor name has its own data: sensor g answers sensor_data g + 1
ResponseOf(g) == RespIdle(g + 1)

\* the polling effect while the sensor name changes
GrowRenameInit == GrowInit /\ AutoIdle /\ EmInit /\ PmInit /\ PanelsIdle /\ LcIdle
GrowRenameNext ==
  \/ GrowTimerFire
  \/ \E g \in Runs, ok \in BOOLEAN : GrowPollSettle(g, ok, ResponseOf(g))
  \/ GrowRename
  \/ GrowUnmount
SpecGrowRename == GrowRenameInit /\ [][GrowRenameNext]_vars

\* automation passes and operator commands to the fan
FanInit ==
  /\ GrowInit
  /\ EmInit
  /\ PmInit
  /\ PanelsIdle
  /\ LcIdle
  /\ AutoInitWith({LedState(FALSE, 0, 0, 0), LedState(TRUE, 0, 0, 0)}, InitCycles)
FanNext ==
  \/ Tick(0)
  \/ \E t \in {14, 21, 29}, h \in {39, 45, 67, 75}, fails \in FailSets : AutomationPass(t, h, fails)
  \/ \E on \in BOOLEAN, ok \in BOOLEAN : ActuatorEndpoint("ventola", on, ok)
SpecFan == FanInit /\ [][FanNext]_vars

RaceInit == GrowInit /\ AutoIdle /\ EmInit /\ PmInit /\ PanelsIdle /\ LcInitWith(InitDocs)
SpecRace == RaceInit /\ [][RaceNext]_vars

(***************************************************************************)
(* Claims about the grow-box panel's scheduler.                            *)
(***************************************************************************)
\* C1 (as stated): for one mounted panel instance there are never two
\* scheduler-issued polls (fetchAllData) in flight at the same time.
C1_NeverTwoSchedulerPolls == gMounted => SchedInFlight <= 1

\* C1 (amended): within one run of the polling effect (one sensorName) the
\* one-shot timer is armed only while that run has no poll in flight, so a run
\* never has two scheduler-issued polls in flight; the armed timer always
\* belongs to the current run.
C1_OnePollPerEffectRun ==
  /\ \A g \in Runs : gSched[g] <= 1
  /\ gTimer # NoTimer => /\ gMounted
                         /\ gTimer.owner = gSensor
                         /\ gSched[gTimer.owner] = 0

\* the current run has re-armed its timer after its poll settled while the
\* poll of the previous sensorName is still in flight
C1_Witness ==
  /\ gMounted /\ gSensor = 1
  /\ gTimer # NoTimer /\ gTimer.owner = 1
  /\ gSched[0] = 1 /\ gSched[1] = 0

(***************************************************************************)
(* Claims about the automation router.                                     *)
(***************************************************************************)
\* the commands the last pass issued in one of its steps, as <<actuator, on>>
StepCommands(step) ==
  {<<last.pass.cmds[i].actuator, last.pass.cmds[i].on>> :
     i \in {j \in 1..Len(last.pass.cmds) : last.pass.cmds[j].step = step}}

\* C2: an LED scheduler pass that finds the LED on computes on_seconds =
\* daily_on_seconds + (now - last_toggle) (on the state left by the daily
\* reset step); at on_seconds >= 64800 it issues an LED-off command and leaves
\* is_on = false, last_toggle = now, daily_on_seconds = 64800; otherwise it
\* issues no command, is_on stays true and daily_on_seconds = on_seconds
\* (64700 + 90 stays on at 64790, 64750 + 90 turns off at 64800).
C2_LedOnPass ==
  (last.op = "pass" /\ last.pass.led_pre.is_on) =>
    LET l == last.pass.led_pre
        on_seconds == l.daily_on_seconds + (now - l.last_toggle)
    IN  /\ IF on_seconds >= 64800
             THEN /\ StepCommands("led") = {<<"luce_led", FALSE>>}
                  /\ led = [is_on |-> FALSE, last_toggle |-> now,
                            daily_on_seconds |-> 64800, last_reset |-> l.last_reset]
             ELSE /\ StepCommands("led") = {}
                  /\ led = [is_on |-> TRUE, last_toggle |-> l.last_toggle,
                            daily_on_seconds |-> on_seconds, last_reset |-> l.last_reset]
        /\ (l.daily_on_seconds = 64700 /\ now - l.last_toggle = 90) =>
             (led.is_on /\ led.daily_on_seconds = 64790)
        /\ (l.daily_on_seconds = 64750 /\ now - l.last_toggle = 90) =>
             (~led.is_on /\ led.daily_on_seconds = 64800)

\* a pass found the LED on with 64750 s accumulated and 90 s elapsed, issued
\* the LED-off command and clamped the accumulator
C2_Witness ==
  /\ last.op = "pass"
  /\ last.pass.led_pre.is_on
  /\ last.pass.led_pre.daily_on_seconds = 64750
  /\ now - last.pass.led_pre.last_toggle = 90
  /\ StepCommands("led") = {<<"luce_led", FALSE>>}
  /\ ~led.is_on /\ led.daily_on_seconds = 64800 /\ led.last_toggle = now

\* C3: a scheduler pass turns the LED on only from the off state, and exactly
\* when at least 21600 s have elapsed since last_toggle and daily_on_seconds <
\* 64800; every other off-state pass leaves the LED state as it is and issues
\* no LED command. Within a pass, On->Off at the daily threshold and this
\* Off->On are the only changes of is_on, and outside a pass only the LED
\* endpoint (the operator) changes it.
C3_OffPass ==
  (last.op = "pass" /\ ~last.pass.led_pre.is_on) =>
    LET l == last.pass.led_pre
        elapsed == now - l.last_toggle
    IN  IF elapsed >= 21600 /\ l.daily_on_seconds < 64800
          THEN /\ StepCommands("led") = {<<"luce_led", TRUE>>}
               /\ led = [l EXCEPT !.is_on = TRUE, !.last_toggle = now]
               /\ now - last.pass.led_in.last_toggle >= 21600
               /\ last.pass.led_in.daily_on_seconds < 64800
          ELSE /\ StepCommands("led") = {}
               /\ led = l

C3_PassTransitions ==
  (last.op = "pass" /\ last.pass.led_in.is_on # led.is_on) =>
    \/ /\ last.pass.led_in.is_on /\ ~led.is_on
       /\ led.daily_on_seconds = 64800
       /\ StepCommands("led") = {<<"luce_led", FALSE>>}
    \/ /\ ~last.pass.led_in.is_on /\ led.is_on
       /\ now - last.pass.led_in.last_toggle >= 21600
       /\ last.pass.led_in.daily_on_seconds < 64800
       /\ StepCommands("led") = {<<"luce_led", TRUE>>}

C4_QuotaIsRealOnTime ==
  (manual = 0 /\ ~led_failed) => led.daily_on_seconds <= real_on

\* C5: humidity hysteresis of one pass, for every phase and average humidity:
\* below hum_min it commands water pump on, fan on, suction pump off; above
\* hum_max suction pump on, fan on, water pump off; inside the band both pumps
\* off (piantina 65-70: 60, 75 and 67).
C5_HumidityHysteresis ==
  last.op = "pass" =>
    LET h == last.pass.hum
        tg == last.pass.targets
        low == {<<"pompa_acqua", TRUE>>, <<"ventola", TRUE>>, <<"pompa_aspirazione", FALSE>>}
        high == {<<"pompa_aspirazione", TRUE>>, <<"ventola", TRUE>>, <<"pompa_acqua", FALSE>>}
        band == {<<"pompa_aspirazione", FALSE>>, <<"pompa_acqua", FALSE>>}
    IN  /\ h < tg.hum_target_min => StepCommands("hum") = low
        /\ h > tg.hum_target_max => StepCommands("hum") = high
        /\ (h >= tg.hum_target_min /\ h <= tg.hum_target_max) => StepCommands("hum") = band
        /\ growth_phase = "piantina" =>
             /\ tg.hum_target_min = 65 /\ tg.hum_target_max = 70
             /\ h = 60 => StepCommands("hum") = low
             /\ h = 75 => StepCommands("hum") = high
             /\ h = 67 => StepCommands("hum") = band

\* a piantina pass at 60 % whose three humidity commands all succeeded
C5_Witness ==
  /\ last.op = "pass" /\ growth_phase = "piantina" /\ last.pass.hum = 60
  /\ \A i \in 1..Len(last.pass.cmds) : last.pass.cmds[i].ok
  /\ act["pompa_acqua"] /\ act["ventola"] /\ ~act["pompa_aspirazione"]

\* C6: temperature hysteresis of one pass: below the target minimum it
\* commands heater on; above the target maximum heater off and fan on; inside
\* the band heater off and no fan command, so the temperature step leaves the
\* fan's persisted state as it was.
C6_TemperatureHysteresis ==
  last.op = "pass" =>
    LET t == last.pass.temp
        tg == last.pass.targets
    IN  /\ t < tg.temp_target_min => StepCommands("temp") = {<<"resistenza", TRUE>>}
        /\ t > tg.temp_target_max =>
             StepCommands("temp") = {<<"resistenza", FALSE>>, <<"ventola", TRUE>>}
        /\ (t >= tg.temp_target_min /\ t <= tg.temp_target_max) =>
             /\ StepCommands("temp") = {<<"resistenza", FALSE>>}
             /\ last.pass.act_temp["ventola"] = last.pass.act_pre["ventola"]
             /\ \A a \in Actuators \ {"resistenza"} :
                  last.pass.act_temp[a] = last.pass.act_pre[a]

\* a pass with the temperature inside the band that found the fan on: the
\* heater-off command succeeded and the fan is still on after the temperature step
C6_Witness ==
  /\ last.op = "pass"
  /\ last.pass.temp >= last.pass.targets.temp_target_min
  /\ last.pass.temp <= last.pass.targets.temp_target_max
  /\ last.pass.act_pre["ventola"] /\ last.pass.act_pre["resistenza"]
  /\ last.pass.act_temp["ventola"] /\ ~last.pass.act_temp["resistenza"]

(***************************************************************************)
(* Claims about the 50EM panel.                                            *)
(***************************************************************************)
LastPayload == Payloads[emLast.payload]

\* C7: merge semantics: a poll that delivers data for channel 1 only leaves
\* the displayed channel 0 record and channel 0 energy record exactly as they
\* were, and symmetrically a poll for channel 0 only leaves channel 1 alone.
C7_OtherChannelKept ==
  emLast.kind = "data" =>
    \A c \in {"0", "1"} :
      LastPayload.chans = {c} =>
        \A o \in {"0", "1"} \ {c} :
          /\ emStatus.channels[o] = emPrev.channels[o]
          /\ emStatus.energy_data[o] = emPrev.energy_data[o]

\* channel 0 was displayed, then a poll delivered channel 1 only: both shown
C7_Witness ==
  /\ emLast.kind = "data"
  /\ LastPayload.chans = {"1"}
  /\ Truthy(emPrev.channels["0"]) /\ Truthy(emPrev.energy_data["0"])
  /\ ~Truthy(emPrev.channels["1"])
  /\ emStatus.channels["0"] = emPrev.channels["0"]
  /\ emStatus.energy_data["0"] = emPrev.energy_data["0"]
  /\ Truthy(emStatus.channels["1"]) /\ Truthy(emStatus.energy_data["1"])

\* what the panel shows for a section: an absent section shows like an empty one
Shown(section) == IF section = Undefined THEN EmptyObj ELSE section

\* C8: a section (wifi, sys, device, mqtt) missing from a poll's payload never
\* blanks the section shown before, for every payload shape.
C8_MissingSectionKept ==
  emLast.kind = "data" =>
    \A s \in Sections \ LastPayload.secs : Shown(emStatus[s]) = Shown(emPrev[s])

\* the events of a NotifyEvent payload that are em1data events of channel c
\* with a non-empty values array
DataEventsOf(events, c) ==
  {k \in 1..Len(events) :
     /\ events[k].component = <<"em1data", c>>
     /\ "values" \in DOMAIN events[k].data
     /\ Len(events[k].data.values) > 0}
LaterEm1(events, k, c) ==
  \E j \in (k + 1)..Len(events) : events[j].component = <<"em1", c>>
SetMax(S) == CHOOSE x \in S : \A y \in S : y <= x

UsedIndices == {0, 1, 4, 6, 7, 11}
MaskVector(v) == [i \in 1..Len(v) |-> IF (i - 1) \in UsedIndices THEN v[i] ELSE 0]
MaskEvent(e) ==
  IF e.component[1] = "em1data" /\ "values" \in DOMAIN e.data /\ Len(e.data.values) > 0
    THEN [e EXCEPT !.data.values = <<MaskVector(e.data.values[1])>>]
    ELSE e
MaskEvents(data) ==
  [data EXCEPT !.params.events = [k \in 1..Len(data.params.events) |->
                                    MaskEvent(data.params.events[k])]]

\* C9 (as stated): every em1data:<c> event with non-empty data.values yields,
\* from its first value vector v, total_act_energy = v[0] * 1000,
\* total_act_ret_energy = v[1] * 1000, act_power = v[4], aprt_power = v[6],
\* voltage = v[7], current = v[11] (stated here for vectors that carry all
\* twelve indices).
C9_EveryEventYields ==
  (emLast.kind = "data" /\ LastPayload.shape = "notify") =>
    LET events == LastPayload.data.params.events
    IN  \A c \in {"0", "1"} : \A k \in DataEventsOf(events, c) :
          LET v == events[k].data.values[1]
          IN  Len(v) >= 12 =>
              /\ emLast.extracted.energy_data[c].total_act_energy = At(v, 0) * 1000
              /\ emLast.extracted.energy_data[c].total_act_ret_energy = At(v, 1) * 1000
              /\ emLast.extracted.channels[c].act_power = At(v, 4)
              /\ emLast.extracted.channels[c].aprt_power = At(v, 6)
              /\ emLast.extracted.channels[c].voltage = At(v, 7)
              /\ emLast.extracted.channels[c].current = At(v, 11)

\* C9 (amended): for every NotifyEvent envelope and channel c, the last
\* em1data:<c> event with non-empty data.values gives, from its first value
\* vector v, total_act_energy = v[0] * 1000 and total_act_ret_energy =
\* v[1] * 1000 (0 when v lacks the index) and, unless an em1:<c> event follows
\* it in the envelope, act_power = v[4], aprt_power = v[6], voltage = v[7],
\* current = v[11] for each of these indices v carries; no other index of v
\* and no later value vector is used.
C9_LastEventYields ==
  (emLast.kind = "data" /\ LastPayload.shape = "notify") =>
    LET events == LastPayload.data.params.events
    IN  /\ \A c \in {"0", "1"} :
             DataEventsOf(events, c) # {} =>
               LET k == SetMax(DataEventsOf(events, c))
                   v == events[k].data.values[1]
                   en == emLast.extracted.energy_data[c]
                   ch == emLast.extracted.channels[c]
               IN  /\ en.total_act_energy = (IF At(v, 0) = UndefNum THEN 0 ELSE At(v, 0) * 1000)
                   /\ en.total_act_ret_energy =
                        (IF At(v, 1) = UndefNum THEN 0 ELSE At(v, 1) * 1000)
                   /\ ~LaterEm1(events, k, c) =>
                        /\ At(v, 4) # UndefNum => ch.act_power = At(v, 4)
                        /\ At(v, 6) # UndefNum => ch.aprt_power = At(v, 6)
                        /\ At(v, 7) # UndefNum => ch.voltage = At(v, 7)
                        /\ At(v, 11) # UndefNum => ch.current = At(v, 11)
        /\ emLast.extracted = ExtractShellyData(MaskEvents(LastPayload.data))

\* the envelope of the worked example: one em1data:0 event with a full vector
C9_Witness ==
  /\ emLast.kind = "data" /\ LastPayload.shape = "notify"
  /\ LastPayload.data.params.events = <<DataEvent("0", <<VecA>>)>>
  /\ emLast.extracted.energy_data["0"].total_act_energy = 12000
  /\ emLast.extracted.energy_data["0"].total_act_ret_energy = 1000
  /\ emLast.extracted.channels["0"].act_power = 150
  /\ emLast.extracted.channels["0"].aprt_power = 300
  /\ emLast.extracted.channels["0"].voltage = 230
  /\ emLast.extracted.channels["0"].current = 4
  /\ emStatus.channels["0"].voltage = 230

(***************************************************************************)
(* Claims about the 1PM panel.                                             *)
(***************************************************************************)
\* C10: every state-changing action (relay on, off, toggle, set auto-off
\* timer, set auto-on timer) that succeeds is followed by a status fetch
\* issued before the action's call completes.
C10_RefreshAfterEveryCommand ==
  (pmDone.action \in StateChanging /\ pmDone.ok) => pmDone.refreshed

FlagClearedOnCompletion ==
  \A a \in ButtonActions :
    (pmCall'[a].req + pmCall'[a].ref < InFlight(a)) => ~pmLoading'[a]

Carried(r) ==
  [active |-> r.cultivation_active,
   fase |-> r.growth_phase,
   actuators |-> IF r.actuator_states.present THEN r.actuator_states.on ELSE {},
   targets |-> r.targets,
   averages |-> r.current_values]
CarriedData(r) == IF r.sensor_data = NoData THEN 0 ELSE r.sensor_data

\* C12: when two status requests of the grow-box panel overlap, after both
\* have resolved every displayed field (sensor data, cultivation-active flag,
\* growth phase, actuator states, targets, averages) equals the value carried
\* by the response that resolved last.
C12_LastResponseShown ==
  (gMounted /\ StatusInFlight = 0 /\ gLast.pair) =>
    (gShown = Carried(gLast.resp) /\ gData = CarriedData(gLast.resp))


(***************************************************************************)
(* Claims about the adaptive interval of the grow-box scheduler.           *)
(***************************************************************************)
\* C13 as stated: each time the scheduler arms its timer, the delay is 1 s when
\* any displayed value (sensor reading, actuator state, target, average) was
\* seen to change less than 10 s earlier, and 5 s otherwise.
C13_AnyChangeFast ==
  gArm.armed => gArm.delay = (IF gArm.any THEN FastDelay ELSE SlowDelay)

\* C13 amended: each time the scheduler arms its timer, the delay is 1 s when,
\* less than 10 s earlier, the panel was mounted or a fetchAllData response
\* carried sensor data differing from the data of the fetchAllData response
\* before it, and 5 s otherwise; the armed timer carries that delay.
C13_PolledDataChangeFast ==
  /\ gArm.armed => gArm.delay = (IF gArm.fresh THEN FastDelay ELSE SlowDelay)
  /\ gTimer # NoTimer => gTimer.delay = gArm.delay

\* the timer is armed with 5 s although an actuator state, target or average
\* shown by the panel changed less than 10 s earlier
C13_Witness ==
  /\ gArm.armed /\ gArm.any /\ ~gArm.fresh
  /\ gTimer # NoTimer /\ gTimer.delay = SlowDelay


(***************************************************************************)
(* Claims about the cultivation lifecycle endpoints.                       *)
(***************************************************************************)
AtMostOnePhaseDate ==
  ~(IsSet(doc, "vegetative_start_date") /\ IsSet(doc, "flowering_start_date"))

AfterSetPhase ==
  /\ (lcLast.op = "set_phase" /\ lcLast.phase = "fioritura") =>
       (IsSet(doc, "flowering_start_date") /\ ~IsSet(doc, "vegetative_start_date"))
  /\ (lcLast.op = "set_phase" /\ lcLast.phase = "vegetativa") =>
       (IsSet(doc, "vegetative_start_date") /\ ~IsSet(doc, "flowering_start_date"))

PhaseOfDoc == IF IsSet(doc, "growth_phase") THEN doc["growth_phase"] ELSE "none"

CycleFieldsGone == DOMAIN doc \cap CycleFields = {}

OffCommandTo(a) ==
  \E i \in 1..Len(lcLast.cmds) : lcLast.cmds[i].actuator = a /\ ~lcLast.cmds[i].on

PlannedCommands ==
  TemperatureCommands(last.pass.targets, last.pass.temp)
    \o HumidityCommands(last.pass.targets, last.pass.hum)
    \o LedScheduleStep(last.pass.led_pre, now).cmds

\* the successful commands of the last pass to actuator a
SucceededTo(a) ==
  {i \in 1..Len(last.pass.cmds) : last.pass.cmds[i].actuator = a /\ last.pass.cmds[i].ok}

\* C16: within one automation pass a failed actuator command is only logged:
\* every command of the pass, the later hysteresis commands and the LED
\* scheduler's included, is still issued; a failed command leaves the persisted
\* boolean of its actuator as it was, and every command that succeeded persists
\* its boolean.
C16_FailureIsolated ==
  last.op = "pass" =>
    /\ Len(last.pass.cmds) = Len(PlannedCommands)
    /\ \A i \in 1..Len(PlannedCommands) :
         /\ last.pass.cmds[i].step = PlannedCommands[i].step
         /\ last.pass.cmds[i].actuator = PlannedCommands[i].actuator
         /\ last.pass.cmds[i].on = PlannedCommands[i].on
    /\ \A a \in Actuators :
         act[a] = IF SucceededTo(a) = {} THEN last.pass.act_pre[a]
                  ELSE last.pass.cmds[CHOOSE i \in SucceededTo(a) :
                                        \A j \in SucceededTo(a) : j <= i].on

\* a pass whose heater command failed: the heater's boolean is as before, the
\* water pump's command succeeded and is persisted, the LED scheduler's command
\* was issued and succeeded
C16_Witness ==
  /\ last.op = "pass"
  /\ Len(last.pass.cmds) >= 5
  /\ last.pass.cmds[1].actuator = "resistenza" /\ ~last.pass.cmds[1].ok
  /\ last.pass.cmds[1].on /\ ~act["resistenza"]
  /\ act["pompa_acqua"] /\ ~last.pass.act_pre["pompa_acqua"]
  /\ last.pass.cmds[Len(last.pass.cmds)].step = "led"
  /\ last.pass.cmds[Len(last.pass.cmds)].ok


EndpointFailureChangesNothing ==
  last'.op \in {"endpoint_failed", "led_endpoint_failed"} => (act' = act /\ led' = led)

\* C17: each of the five direct actuator endpoints returns a fatal error and
\* leaves the persisted actuator booleans and the LED schedule state unchanged
\* when the collaborator reports failure; when it reports success the persisted
\* boolean of the actuator, and for the LED the is_on of the schedule state,
\* equals the requested value.
C17_EndpointPersistsOnSuccessOnly ==
  /\ [](last.op \in {"endpoint", "led_endpoint"} => act[last.actuator] = last.on)
  /\ [](last.op = "led_endpoint" => led.is_on = last.on)
  /\ [][EndpointFailureChangesNothing]_vars

\* a failed command to switch the lit LED off, some time into the run
C17_Witness ==
  /\ last.op = "led_endpoint_failed" /\ ~last.on
  /\ act["luce_led"] /\ led.is_on
  /\ ticks > 0


(***************************************************************************)
(* Claims about the target computation.                                    *)
(***************************************************************************)
\* whole weeks between the start of the cycle and the last pass
WeeksOfPass == WeeksElapsed(now, start_date)

\* C18: in vegetativa, for every whole number w >= 0 of elapsed weeks,
\* hum_target_min = max(40, 65 - 5w) and hum_target_max = max(45,
\* hum_target_min + 5); hence hum_target_min < hum_target_max, the band is never
\* below 40-45 %, and w = 3 gives 50-55 %; the temperature target is 22-28 when
\* the LED is on and 17-24 when it is off.
C18_VegetativeTargets ==
  (last.op = "pass" /\ growth_phase = "vegetativa" /\ WeeksOfPass >= 0) =>
    LET tg == last.pass.targets
        w == WeeksOfPass
    IN  /\ tg.hum_target_min = (IF 65 - 5 * w >= 40 THEN 65 - 5 * w ELSE 40)
        /\ tg.hum_target_max =
             (IF tg.hum_target_min + 5 >= 45 THEN tg.hum_target_min + 5 ELSE 45)
        /\ tg.hum_target_min < tg.hum_target_max
        /\ tg.hum_target_min >= 40 /\ tg.hum_target_max >= 45
        /\ w = 3 => (tg.hum_target_min = 50 /\ tg.hum_target_max = 55)
        /\ tg.temp_target_min = (IF last.pass.led_in.is_on THEN 22 ELSE 17)
        /\ tg.temp_target_max = (IF last.pass.led_in.is_on THEN 28 ELSE 24)

\* a pass of a cycle more than five weeks old, LED on: the band rests at 40-45
C18_Witness ==
  /\ last.op = "pass" /\ growth_phase = "vegetativa" /\ WeeksOfPass >= 6
  /\ last.pass.led_in.is_on
  /\ last.pass.targets.hum_target_min = 40 /\ last.pass.targets.hum_target_max = 45
  /\ last.pass.targets.temp_target_max = 28


(***************************************************************************)
(* Claims about the daily reset of the LED accumulator.                    *)
(***************************************************************************)
\* a pass that finds a stale last_reset zeroes the accumulator and anchors
\* last_reset and last_toggle at now; a pass that finds today's date keeps
\* last_reset and does not zero the accumulator
PassResetsOnNewDay ==
  last.op = "pass" =>
    IF last.pass.led_in.last_reset # Date(now)
      THEN /\ last.pass.led_pre.daily_on_seconds = 0
           /\ last.pass.led_pre.last_reset = Date(now)
           /\ last.pass.led_pre.last_toggle = now
           /\ led.daily_on_seconds = 0
      ELSE /\ last.pass.led_pre = last.pass.led_in
           /\ last.pass.led_in.daily_on_seconds > 0 => led.daily_on_seconds > 0

AccumulatorZeroed == led.daily_on_seconds > 0 /\ led'.daily_on_seconds = 0

ZeroedOnlyOnNewDay == AccumulatorZeroed => led.last_reset # Date(now)

ZeroedOnlyOnNewDayOrStart ==
  AccumulatorZeroed => (led.last_reset # Date(now) \/ last'.op = "start")

BareKeys == {"em1:0", "em1:1", "em1data:0", "em1data:1"}
Without(o, keys) == [k \in DOMAIN o \ keys |-> o[k]]

\* the rules a payload matches
RulesMatched(data) ==
  (IF IsNormalized(data) THEN {"normalized"} ELSE {})
    \cup (IF IsEnvelope(data) THEN {"envelope"} ELSE {})
    \cup (IF IsBare(data) THEN {"bare"} ELSE {})

\* the sub-shapes an envelope matches
SubShapesMatched(data) ==
  IF IsEnvelope(data)
    THEN (IF IsEventEnvelope(data) THEN {"events"} ELSE {})
           \cup (IF DOMAIN data.params \cap BareKeys # {} THEN {"named"} ELSE {})
    ELSE {}

\* the payload with everything removed that only a rule after the first
\* matching one, in the stated order, would read
EarliestRuleOnly(data) ==
  IF IsNormalized(data) THEN Without(data, {"method", "params"} \cup BareKeys)
  ELSE IF IsEnvelope(data)
    THEN [Without(data, BareKeys) EXCEPT
            !.params = IF IsEventEnvelope(data) THEN Without(@, BareKeys) ELSE @]
  ELSE data

LoopsAlive ==
  /\ gMounted => (gTimer # NoTimer \/ gSched[gSensor] > 0)
  /\ htMounted => htInterval

\* the last poll of each panel that succeeded left no error and its own data
LastSuccessShown ==
  /\ (gMounted /\ gArm.armed /\ gArm.ok) =>
       (gError = "none" /\ (gArm.data # NoData => gData = gArm.data))
  /\ (htMounted /\ htLast.settled = "ok") =>
       (htError = "none" /\ htData = htLast.data)
  /\ (emMounted /\ emLast.kind = "data") =>
       (/\ emError = "none"
        /\ ~emLoading
        /\ emStatus = MergeStatus(emPrev, emLast.extracted))

C22_NothingAfterUnmount ==
  /\ ~rpcMounted => (~rpcInterval /\ rpcTimers = 0)
  /\ ~rpcLate.fired
  /\ ~rpcLate.requested

(***************************************************************************)
(* Claims about the actuator buttons of the grow-box panel.                *)
(***************************************************************************)
\* steps of the handler of actuator a
ToggleSent(a) == tgCall[a].phase = "none" /\ tgCall'[a].phase = "sent"
ToggleAnswered(a) == tgCall[a].phase = "sent" /\ tgCall'[a].phase # "sent"
ToggleReadBack(a) == tgCall[a].phase = "reading" /\ tgCall'[a].phase = "none"

\* after a success the handler re-reads the combined status, after a failure
\* it starts no request and changes nothing on display
CommandThenReRead ==
  \A a \in Actuators :
    ToggleAnswered(a) =>
      /\ gShown' = gShown
      /\ gStatus' = gStatus
      /\ tgLast'.event = "ok" => tgCall'[a].phase = "reading"
      /\ tgLast'.event = "failed" => (tgCall'[a].phase = "none" /\ gLast' = gLast)

\* the actuator values of the re-read response replace the displayed ones
ReReadReplaces ==
  \A a \in Actuators :
    (ToggleReadBack(a) /\ gMounted /\ tgLast'.event = "read") =>
      gShown'.actuators = (IF tgLast'.resp.actuator_states.present
                             THEN tgLast'.resp.actuator_states.on
                             ELSE gShown.actuators)

\* pressing the button flips the displayed state of the actuator at once
ToggleFlipsDisplay ==
  \A a \in Actuators :
    ToggleSent(a) => ((a \in gShown'.actuators) # (a \in gShown.actuators))

\* pressing the button changes nothing on display
ToggleKeepsDisplay ==
  \A a \in Actuators : ToggleSent(a) => gShown' = gShown

\* C23 as stated: a press first flips the displayed state of the actuator
\* locally, before the response; after the command succeeded the combined
\* status is re-read and its actuator values replace the local ones; a failed
\* command triggers no re-read.
C23_FlipThenReconcile ==
  [][ToggleFlipsDisplay /\ CommandThenReRead /\ ReReadReplaces]_vars

\* C23 (amended): a press changes nothing on display; the displayed state
\* changes only when the status re-read after a successful command answers,
\* with the actuator values of that response; a failed command triggers no
\* re-read and leaves the display as it was.
C23_ReconcileOnly ==
  [][ToggleKeepsDisplay /\ CommandThenReRead /\ ReReadReplaces]_vars

\* the fan was displayed off when its button was pressed, its command
\* succeeded and the re-read shows it on
C23_Witness ==
  /\ tgLast.actuator = "ventola" /\ tgLast.event = "read"
  /\ "ventola" \notin tgLast.was
  /\ tgLast.resp.actuator_states.present
  /\ "ventola" \in gShown.actuators
  /\ tgCall["ventola"].phase = "none"

(***************************************************************************)
(* Claims about the WebSocket panel.                                       *)
(***************************************************************************)
\* C24: no data poll is issued for a sensor name before a start-bridge request
\* for that sensor name has succeeded.
C24_PollOnlyStartedSensors == wsHist.polled \subseteq wsHist.startedFor

\* a start request goes out
StartIssued == wsStarts' = wsStarts + 1

\* a start request goes out only when none is in flight and none has succeeded
StartOnlyOnce == StartIssued => (wsStartFor = NoSensor /\ wsHist.startedFor = {})

\* serverStarted stays true and the port keeps its value
StartedForGood == wsStarted => (wsStarted' /\ wsPort' = wsPort)

\* the port is that of the successful start; offline there is none
PortOfStart ==
  /\ wsStarted => (wsPort = wsHist.port /\ wsHist.startedFor # {})
  /\ ~wsStarted => wsPort = 0

\* after a failed start the panel is offline and the start button is enabled
FailedStartRetryable ==
  (wsMounted /\ wsHist.start = "failed" /\ wsStartFor = NoSensor) =>
    (~wsStarted /\ wsPort = 0 /\ ~wsLoading.start)

\* C25: no start request is issued while one is in flight or after one has
\* succeeded; serverStarted never returns to false and the port keeps the
\* value of the successful start; after a failed start the panel stays
\* offline with no port and the start can be retried.
C25_StartIdempotent ==
  /\ [](PortOfStart /\ FailedStartRetryable)
  /\ [][StartOnlyOnce /\ StartedForGood]_vars

\* a start failed, the retry succeeded, the panel then changed sensor name
C25_Witness ==
  /\ wsStarts = 2 /\ wsStarted /\ wsPort = 2 /\ wsHist.start = "ok"
  /\ wsSensor = 1 /\ wsInterval = 1

\* C26: the pin is always an integer in 0..255, every value in 0..255 the
\* operator enters is the pin the next command sends, and a command is sent
\* only while the bridge is running.
C26_PinAsEntered ==
  /\ wsPin \in PinMin..PinMax
  /\ (wsHist.edited /\ ~wsHist.entered.nan /\ wsHist.entered.n \in PinMin..PinMax) =>
       wsPin = wsHist.entered.n
  /\ wsHist.sent.pin # NoSensor =>
       (/\ wsHist.sent.running
        /\ (~wsHist.sent.entered.nan /\ wsHist.sent.entered.n \in PinMin..PinMax) =>
             wsHist.sent.pin = wsHist.sent.entered.n)

(***************************************************************************)
(* Claims about the display functions.                                     *)
(***************************************************************************)
\* C28: an average is coloured green inside [target_min, target_max], red
\* outside, and grey whenever the reading or a target (min or max) is absent.
C28_GreyWithoutTargetOrReading ==
  fnOut # "none" =>
    fnOut = (IF ~fnIn.avg.present \/ ~fnIn.lo.present \/ ~fnIn.hi.present THEN Grey
             ELSE IF fnIn.avg.v >= fnIn.lo.v /\ fnIn.avg.v <= fnIn.hi.v THEN Green
             ELSE Red)

\* C29: every revision of the 50EM panel colours active power red above
\* 2000 W, orange above 1000 W up to 2000 W, green otherwise.
C29_PowerColour ==
  fnOut # "none" =>
    fnOut = (IF fnIn.power.present /\ fnIn.power.v > 2000 THEN Red
             ELSE IF fnIn.power.present /\ fnIn.power.v > 1000 THEN Orange
             ELSE Green)

\* the classes of the claim that contain rssi
RssiClasses(rssi) ==
  {c \in {"N/A", "Eccellente", "Buono", "Discreto", "Debole"} :
     \/ c = "N/A" /\ ~rssi.present
     \/ c = "Eccellente" /\ rssi.present /\ rssi.v > 0 - 50
     \/ c = "Buono" /\ rssi.present /\ 0 - 60 < rssi.v /\ rssi.v <= 0 - 50
     \/ c = "Discreto" /\ rssi.present /\ 0 - 70 < rssi.v /\ rssi.v <= 0 - 60
     \/ c = "Debole" /\ rssi.present /\ rssi.v <= 0 - 70}

\* C30: the RSSI classes are a total, non-overlapping partition, identical in
\* every panel: rssi > -50 Excellent, -60 < rssi <= -50 Good,
\* -70 < rssi <= -60 Fair, rssi <= -70 Weak, absent N/A.
C30_RssiPartition ==
  fnOut # "none" =>
    /\ RssiClasses(fnIn.rssi) = {fnOut}
    /\ \A p \in RssiPanels : GetRSSIStrength(p, fnIn.rssi) = fnOut

\* the H&T panel has rendered -50 dBm as Good
C30_Witness ==
  /\ fnIn.fn = "rssi" /\ fnIn.panel = "ht"
  /\ fnIn.rssi = Num(0 - 50)
  /\ fnOut = "Buono"

(***************************************************************************)
(* Claims about the timers of the 1PM panel.                               *)
(***************************************************************************)
\* C38: after every successful status refresh the auto-off and auto-on values
\* shown (and sent by the next set-timer command) equal the auto_off and
\* auto_on the device reported, 0 for a disabled timer included.
C38_TimersAsReported ==
  pmDone.status.got =>
    (pmAutoOff = pmDone.status.auto_off /\ pmAutoOn = pmDone.status.auto_on)

(***************************************************************************)
(* Claims about the fields an em1data event does not carry.                *)
(***************************************************************************)
\* the payload is a NotifyEvent whose events are all em1data events of
\* channel c with a vector of values
OnlyEm1Data(p, c) ==
  /\ p.shape = "notify"
  /\ p.data.method = "NotifyEvent"
  /\ Len(p.data.params.events) > 0
  /\ \A i \in 1..Len(p.data.params.events) :
       LET event == p.data.params.events[i]
       IN  /\ event.component = <<"em1data", c>>
           /\ Len(event.data.values) > 0

\* C37: a poll that carries only an em1data event for channel c preserves the
\* power factor and the frequency displayed for channel c before it.
C37_Em1DataKeepsPfFreq ==
  \A c \in {"0", "1"} :
    (/\ emLast.kind = "data"
     /\ OnlyEm1Data(LastPayload, c)
     /\ Truthy(emPrev.channels[c])) =>
      /\ emStatus.channels[c].pf = emPrev.channels[c].pf
      /\ emStatus.channels[c].freq = emPrev.channels[c].freq

(***************************************************************************)
(* Claims about the dimmer panel.                                          *)
(***************************************************************************)
\* C31: after the operator selects a preset p, the next "set brightness" and
\* the next "turn on" command carry brightness = p as long as the slider is
\* not moved in between; the brightness sent is always within 1..100.
C31_PresetRoundTrip ==
  /\ dmBrightness \in BrightnessMin..BrightnessMax
  /\ dmPreset # 0 => dmBrightness = dmPreset
  /\ dmSent.action # "none" =>
       /\ dmSent.brightness \in BrightnessMin..BrightnessMax
       /\ dmSent.preset # 0 => dmSent.brightness = dmSent.preset

\* the 75 % preset was selected, then "set brightness" sent 75
C31_Witness ==
  /\ dmSent.action = "set_brightness"
  /\ dmSent.preset = 75
  /\ dmSent.brightness = 75

(***************************************************************************)
(* Claims about the grow-box panel after a change of sensor name.          *)
(***************************************************************************)
\* C36: after sensorName has changed the panel displays no sensor data that
\* was fetched for a previous sensor name, also when a request for the
\* previous name was in flight at the change.
C36_NoDataOfPreviousSensor ==
  (gMounted /\ gData # 0) => gData = ResponseOf(gSensor).sensor_data


(***************************************************************************)
(* Claims about the automation loop and the fan.                           *)
(***************************************************************************)
InBand(p) ==
  /\ p.temp >= p.targets.temp_target_min /\ p.temp <= p.targets.temp_target_max
  /\ p.hum >= p.targets.hum_target_min /\ p.hum <= p.targets.hum_target_max

\* a step of the automation loop issues no fan-off command and leaves a fan
\* whose persisted state is on, on
FanKeptByPass ==
  last'.op = "pass" =>
    /\ \A i \in 1..Len(last'.pass.cmds) :
         last'.pass.cmds[i].actuator = "ventola" => last'.pass.cmds[i].on
    /\ act["ventola"] => act'["ventola"]

\* C34: the automation loop never issues a fan-off command: over any sequence
\* of automation passes a fan whose persisted state is on stays on, also when
\* temperature and humidity are back inside their bands; only an operator's
\* fan command switches it off
C34_FanNeverSwitchedOffByLoop == [][FanKeptByPass]_vars

\* a pass with both averages inside their bands has run with the fan on
C34_Witness ==
  /\ last.op = "pass"
  /\ InBand(last.pass)
  /\ last.pass.act_pre["ventola"]
  /\ act["ventola"]


(***************************************************************************)
(* Claims about the LED accumulator under operator commands.               *)
(***************************************************************************)
\* C35: daily_on_seconds never exceeds 64800 in any reachable LED schedule
\* state, under any interleaving of scheduler passes and operator LED on/off
\* commands between two daily resets
C35_AccumulatorWithinQuota == led.daily_on_seconds <= OnTargetSeconds


(***************************************************************************)
(* Claims about the pumps under failing commands.                          *)
(***************************************************************************)
\* C32: after any sequence of automation passes in which single commands may
\* fail, the persisted states of the suction pump and of the water pump are
\* never both on at the end of a pass
C32_PumpsNeverBothOn ==
  last.op = "pass" => ~(act["pompa_aspirazione"] /\ act["pompa_acqua"])


(***************************************************************************)
(* Claims about end cultivation next to a running automation pass.         *)
(***************************************************************************)
\* C33: once an end-cultivation call has returned, the configuration
\* document holds none of the five actuator-state fields and none of the four
\* LED fields until the next start cultivation, also when an automation pass
\* for the same sensor runs concurrently with the call
C33_EndStaysClean ==
  lcLast.op = "end" => DOMAIN doc \cap (ActuatorFields \cup LedFields) = {}

====
